---- MODULE Spec2Model ----
(***************************************************************************)
(* A model of the pheromessage gossip engines (UniformGossip and           *)
(* PreferentialGossip of src/src/lib.rs), of the GossipSet replica         *)
(* (src/src/data.rs) and of the in-process channel adapter that builds a   *)
(* network of them over mpsc mailboxes (src/pheromessage/src/channel.rs),  *)
(* with the constructors and the delivery of the multiplex adapter         *)
(* (src/pheromessage/src/multiplex.rs), the cooperative simulation of      *)
(* src/pherogoose/src/lib.rs and the thread-per-node and thread-per-group  *)
(* drivers (src/examples/lset.rs, src/pheromessage/examples/lset.rs).      *)
(***************************************************************************)
EXTENDS Integers, Sequences, FiniteSets, TLC

(***************************************************************************)
(* Bounds of the model.                                                    *)
(***************************************************************************)
\* num_nodes handed to the channel constructors.
NumNodes == 3
\* Message identifiers are 1..MaxId.
MaxId == 1
\* The largest fanout handed to the constructors.
MaxFanout == 2
\* The number of receive/update calls made on an engine in one behaviour.
MaxCalls == 3
\* The index of the node whose engine is called.
Driven == 1
\* The network specification originates MaxLoad \div NumNodes messages.
MaxLoad == 6
\* The replica specification touches the items 1..MaxItem.
MaxItem == 2
\* The number of add_item/remove_item/update calls on the replicas.
MaxOps == 4
\* num_groups handed to the multiplex constructors.
NumGroups == 2
\* The largest number of endpoints handed to one deliver call.
MaxBatch == 3
\* The number of add_color, remove_color and tick calls made on a cult.
MaxCultOps == 3
\* The number of Query messages the main thread of a driver sends.
MaxQueries == 1
\* The number of increment_seen calls made for one identifier on a log.
MaxSightings == 4

Nodes == 0 .. (NumNodes - 1)
Ids == 1 .. MaxId
Items == 1 .. ((MaxId + 1) \div 2)
NetIds == 1 .. (MaxLoad \div NumNodes)
SetItems == 1 .. MaxItem
Groups == 0 .. (NumGroups - 1)

VARIABLES
  cfg,            \* [engine, fanout, num_primaries]: the constructor's arguments
  seen_messages,  \* UniformGossip.seen_messages of every node
  message_log,    \* PreferentialGossip.message_log of every node
  data,           \* the GossipSet replica (GossipSet.items) of every node
  mailbox,        \* the contents of every node's mpsc channel
  closed,         \* the nodes whose mpsc::Receiver has been dropped
  calls,          \* the number of receive/update calls made so far
  hist,           \* per node and identifier: what the calls so far did
  last,           \* the last receive/update call, its pre-state and its result
  sets,           \* GossipSet replicas called directly, and the calls made
  dl,             \* the group mailboxes and the last deliver call
  mux,            \* the network a multiplex constructor is building
  cult,           \* the GooseCult simulation around the network
  drv,            \* the example driver around the network
  sight,          \* a message_log on its own, and the increment_seen calls made
  harness         \* the local_network test around the network

vars == <<cfg, seen_messages, message_log, data, mailbox, closed,
          calls, hist, last, sets, dl, mux, cult, drv, sight, harness>>

(***************************************************************************)
(* Messages: GossipSetMessage {id, action}.  Identifiers are unique to a   *)
(* message, so the message universe holds one message per identifier.      *)
(***************************************************************************)
Message(i) ==
  [id |-> i,
   action |-> IF i % 2 = 1 THEN "Add" ELSE "Remove",
   item |-> (i + 1) \div 2]

Messages == { Message(i) : i \in Ids }

\* The messages the network specification originates, and their items.
NetMessages == { Message(i) : i \in NetIds }
NetItems == { m.item : m \in NetMessages }

(***************************************************************************)
(* The GossipSet replica: a map from the items touched so far to their     *)
(* ItemActions counters.                                                   *)
(***************************************************************************)
ItemActionsDefault == [added_count |-> 0, removed_count |-> 0]

GossipSetDefault == [t \in {} |-> ItemActionsDefault]

\* HashMap::entry(item).or_default()
EntryOrDefault(items, item) ==
  IF item \in DOMAIN items THEN items ELSE items @@ (item :> ItemActionsDefault)

\* An add that wins over the removals so far.
add_item_Reset(items, item) ==
  [EntryOrDefault(items, item) EXCEPT
     ![item] = [added_count |-> @.added_count + 1, removed_count |-> 0]]

add_item(items, item) ==
  [EntryOrDefault(items, item) EXCEPT ![item].added_count = @ + 1]

\* A remove that only counts when the item is present.
remove_item_IfPresent(items, item) ==
  IF item \in DOMAIN items /\ items[item].added_count > items[item].removed_count
    THEN [items EXCEPT ![item].removed_count = @ + 1]
    ELSE items

remove_item(items, item) ==
  [EntryOrDefault(items, item) EXCEPT ![item].removed_count = @ + 1]

is_present(items, item) ==
  IF item \in DOMAIN items
    THEN items[item].added_count > items[item].removed_count
    ELSE FALSE

\* An update that counts every message as an addition.
data_update_AddOnly(items, message) == add_item(items, message.item)

\* An update in which the last action on an item wins.
data_update_LastWins(items, message) ==
  LET entries == EntryOrDefault(items, message.item) IN
  IF message.action = "Add"
    THEN [entries EXCEPT ![message.item].added_count = @ + 1,
                         ![message.item].removed_count = 0]
    ELSE [entries EXCEPT ![message.item].removed_count =
                            entries[message.item].added_count]

\* SharedData::update for GossipSet
data_update(items, message) ==
  IF message.action = "Add"
    THEN add_item(items, message.item)
    ELSE remove_item(items, message.item)

(***************************************************************************)
(* The channel adapter.  channels[j] is node j's mpsc channel; an endpoint *)
(* token is a clone of a channel's Sender, modelled by the node's index.   *)
(***************************************************************************)
\* channels.iter().enumerate(): the nodes in index order.
channels == [k \in 1 .. NumNodes |-> k - 1]

\* A peer list that holds every sender, the node's own included.
peers_WithSelf(i) == channels

\* uniform_local_gossip_set: every sender except the node's own, in order.
peers(i) == SelectSeq(channels, LAMBDA j : i # j)

\* preferential_local_gossip_set: let primary = i < num_primaries.
primary(i) == i < cfg.num_primaries

\* preferential_local_gossip_set: the senders j != i with j < num_primaries.
primaries(i) == SelectSeq(channels, LAMBDA j : i # j /\ j < cfg.num_primaries)

\* A secondaries list that starts one node too early.
secondaries_FromLastPrimary(i) ==
  SelectSeq(channels, LAMBDA j : i # j /\ ~(j + 1 < cfg.num_primaries))

\* preferential_local_gossip_set: the senders j != i with j >= num_primaries.
secondaries(i) ==
  SelectSeq(channels, LAMBDA j : i # j /\ ~(j < cfg.num_primaries))

\* A delivery that passes over a closed endpoint and goes on with the rest,
\* reporting the failure at the end.
RECURSIVE deliver_SkipClosed(_, _, _, _)
deliver_SkipClosed(mb, cl, message, endpoints) ==
  IF endpoints = <<>>
    THEN [mailbox |-> mb, result |-> "Ok"]
    ELSE IF Head(endpoints) \in cl
      THEN [mailbox |-> deliver_SkipClosed(mb, cl, message,
                                           Tail(endpoints)).mailbox,
            result |-> "Err"]
      ELSE deliver_SkipClosed([mb EXCEPT ![Head(endpoints)] = Append(@, message)],
                              cl, message, Tail(endpoints))

\* Delivery for Channels: send a clone to each endpoint in iteration order;
\* `?` returns the SendError of the first endpoint whose receiver is gone.
RECURSIVE deliver(_, _, _, _)
deliver(mb, cl, message, endpoints) ==
  IF endpoints = <<>>
    THEN [mailbox |-> mb, result |-> "Ok"]
    ELSE IF Head(endpoints) \in cl
      THEN [mailbox |-> mb, result |-> "Err"]
      ELSE deliver([mb EXCEPT ![Head(endpoints)] = Append(@, message)],
                   cl, message, Tail(endpoints))

(***************************************************************************)
(* Fanout selection.                                                       *)
(***************************************************************************)
Min(a, b) == IF a < b THEN a ELSE b

Injections(k, n) ==
  { f \in [1 .. k -> 1 .. n] : \A a, b \in 1 .. k : a # b => f[a] # f[b] }

\* A selection that ignores the amount and returns the whole slice.
ChooseMultiple_All(targets, amount) ==
  { [k \in 1 .. Len(targets) |-> targets[f[k]]] :
      f \in Injections(Len(targets), Len(targets)) }

\* A selection with replacement: a position may be drawn more than once.
ChooseMultiple_WithReplacement(targets, amount) ==
  { [k \in 1 .. Min(amount, Len(targets)) |-> targets[f[k]]] :
      f \in [1 .. Min(amount, Len(targets)) -> 1 .. Len(targets)] }

\* targets.choose_multiple(&mut rng, fanout): min(fanout, len) elements at
\* pairwise distinct positions of the slice, in any order.
ChooseMultiple(targets, amount) ==
  { [k \in 1 .. Min(amount, Len(targets)) |-> targets[f[k]]] :
      f \in Injections(Min(amount, Len(targets)), Len(targets)) }

\* gossip(delivery, message, targets, fanout): every outcome of one call.
gossip(mb, cl, message, targets, fanout) ==
  { [chosen |-> c,
     mailbox |-> deliver(mb, cl, message, c).mailbox,
     result |-> deliver(mb, cl, message, c).result] :
      c \in ChooseMultiple(targets, fanout) }

(***************************************************************************)
(* The dedup structures.                                                   *)
(***************************************************************************)
\* An insert that reports every value as new.
HashSetInsert_AlwaysNew(set, id) == [set |-> set \cup {id}, new |-> TRUE]

\* An insert that reports every value as already present.
HashSetInsert_NeverNew(set, id) == [set |-> set \cup {id}, new |-> FALSE]

\* HashSet::insert: the set with the value in it, and whether it was new.
HashSetInsert(set, id) == [set |-> set \cup {id}, new |-> id \notin set]

\* An increment that stops at Twice: the count never reaches MoreThanTwice.
increment_StopsAtTwice(count) ==
  CASE count = "Once" -> "Twice"
    [] count = "Twice" -> "Twice"
    [] count = "MoreThanTwice" -> "MoreThanTwice"

\* SeenCount::increment
increment(count) ==
  CASE count = "Once" -> "Twice"
    [] count = "Twice" -> "MoreThanTwice"
    [] count = "MoreThanTwice" -> "MoreThanTwice"

\* An increment_seen that overwrites the entry with Once.
increment_seen_Reset(log, id) ==
  [log |-> [i \in DOMAIN log \cup {id} |-> IF i = id THEN "Once" ELSE log[i]],
   count |-> "Once"]

\* An increment_seen that returns the count it found in the log.
increment_seen_ReturnsFound(log, id) ==
  IF id \in DOMAIN log
    THEN [log |-> [log EXCEPT ![id] = increment(@)], count |-> log[id]]
    ELSE [log |-> log @@ (id :> "Once"), count |-> "Once"]

\* PreferentialGossip::increment_seen: entry(id).and_modify(increment)
\* .or_insert(Once), and the count now stored.
increment_seen(log, id) ==
  IF id \in DOMAIN log
    THEN [log |-> [log EXCEPT ![id] = increment(@)],
          count |-> increment(log[id])]
    ELSE [log |-> log @@ (id :> "Once"), count |-> "Once"]

None == [some |-> FALSE, list |-> <<>>]
Some(list) == [some |-> TRUE, list |-> list]

\* A receive that swaps the two lists of a primary.
ReceiveTargets_Swapped(n, count_seen) ==
  IF primary(n)
    THEN CASE count_seen = "Once" -> Some(secondaries(n))
           [] count_seen = "Twice" -> Some(primaries(n))
           [] count_seen = "MoreThanTwice" -> None
    ELSE IF count_seen = "Once"
      THEN Some(secondaries(n))
      ELSE None

\* A receive in which a secondary passes a first sighting on to primaries.
ReceiveTargets_SecondaryToPrimaries(n, count_seen) ==
  IF primary(n)
    THEN CASE count_seen = "Once" -> Some(primaries(n))
           [] count_seen = "Twice" -> Some(secondaries(n))
           [] count_seen = "MoreThanTwice" -> None
    ELSE IF count_seen = "Once"
      THEN Some(primaries(n))
      ELSE None

\* A receive that does not look at the role: a secondary bleeds on second
\* sight as a primary does.
ReceiveTargets_NoRole(n, count_seen) ==
  CASE count_seen = "Once" -> Some(IF primary(n) THEN primaries(n)
                                                 ELSE secondaries(n))
    [] count_seen = "Twice" -> Some(secondaries(n))
    [] count_seen = "MoreThanTwice" -> None

\* A primary that keeps a message to itself when it comes back from a peer.
ReceiveTargets_SecondSightSilent(n, count_seen) ==
  IF count_seen = "Once"
    THEN Some(IF primary(n) THEN primaries(n) ELSE secondaries(n))
    ELSE None

\* PreferentialGossip::receive: who to pass the message on to, if anyone.
ReceiveTargets(n, count_seen) ==
  IF primary(n)
    THEN CASE count_seen = "Once" -> Some(primaries(n))
           [] count_seen = "Twice" -> Some(secondaries(n))
           [] count_seen = "MoreThanTwice" -> None
    ELSE IF count_seen = "Once"
      THEN Some(secondaries(n))
      ELSE None

\* An update that seeds the originator's own layer.
UpdateTargets_OwnLayer(n) == IF primary(n) THEN primaries(n) ELSE secondaries(n)

\* An update that seeds both layers at once.
UpdateTargets_Everyone(n) == primaries(n) \o secondaries(n)

\* PreferentialGossip::update: the targets of a locally originated message.
UpdateTargets(n) == primaries(n)

(***************************************************************************)
(* The engines.  Each operator gives what one call does to the engine      *)
(* before it gossips: the dedup structure and the replica after the call,  *)
(* whether data.update was invoked, and the target list handed to gossip   *)
(* (None when gossip is not called).                                       *)
(***************************************************************************)
\* A receive that forwards a new message without updating the replica.
uniform_receive_NoDataUpdate(n, seen, items, message) ==
  LET new == HashSetInsert(seen, message.id) IN
  [seen |-> new.set, data |-> items, applied |-> FALSE,
   targets |-> IF new.new THEN Some(peers(n)) ELSE None]

\* A receive that forwards a duplicate as well.
uniform_receive_ForwardDuplicates(n, seen, items, message) ==
  LET new == HashSetInsert(seen, message.id) IN
  [seen |-> new.set,
   data |-> IF new.new THEN data_update(items, message) ELSE items,
   applied |-> new.new, targets |-> Some(peers(n))]

\* UniformGossip::receive
uniform_receive(n, seen, items, message) ==
  LET new == HashSetInsert(seen, message.id) IN
  IF new.new
    THEN [seen |-> new.set, data |-> data_update(items, message),
          applied |-> TRUE, targets |-> Some(peers(n))]
    ELSE [seen |-> new.set, data |-> items,
          applied |-> FALSE, targets |-> None]

\* An update that does not mark the message as seen.
uniform_update_NotMarked(n, seen, items, message) ==
  [seen |-> seen, data |-> data_update(items, message),
   applied |-> TRUE, targets |-> Some(peers(n))]

\* UniformGossip::update
uniform_update(n, seen, items, message) ==
  [seen |-> HashSetInsert(seen, message.id).set,
   data |-> data_update(items, message),
   applied |-> TRUE, targets |-> Some(peers(n))]

\* A receive that updates the replica on the second sighting too.
preferential_receive_Reapply(n, log, items, message) ==
  LET seen == increment_seen(log, message.id) IN
  [log |-> seen.log,
   data |-> IF seen.count # "MoreThanTwice"
              THEN data_update(items, message) ELSE items,
   applied |-> seen.count # "MoreThanTwice",
   targets |-> ReceiveTargets(n, seen.count)]

\* PreferentialGossip::receive
preferential_receive(n, log, items, message) ==
  LET seen == increment_seen(log, message.id) IN
  [log |-> seen.log,
   data |-> IF seen.count = "Once" THEN data_update(items, message) ELSE items,
   applied |-> seen.count = "Once",
   targets |-> ReceiveTargets(n, seen.count)]

\* An update that forwards the message and leaves the replica to the copy
\* that comes back.
preferential_update_ForwardOnly(n, log, items, message) ==
  [log |-> increment_seen(log, message.id).log,
   data |-> items,
   applied |-> TRUE, targets |-> Some(UpdateTargets(n))]

\* An update that does not enter the message in the log.
preferential_update_NotLogged(n, log, items, message) ==
  [log |-> log,
   data |-> data_update(items, message),
   applied |-> TRUE, targets |-> Some(UpdateTargets(n))]

\* PreferentialGossip::update
preferential_update(n, log, items, message) ==
  [log |-> increment_seen(log, message.id).log,
   data |-> data_update(items, message),
   applied |-> TRUE, targets |-> Some(UpdateTargets(n))]

(***************************************************************************)
(* The record of the calls: the last call with the state it started from,  *)
(* the target list it handed to gossip, the endpoints gossip chose and the *)
(* result it returned; and per node and identifier the number of calls of  *)
(* each kind, of data.update invocations and of gossip calls, and the kind *)
(* of the first call.                                                      *)
(***************************************************************************)
NoCall ==
  [op |-> "none", node |-> 0, msg |-> Message(1),
   pre |-> [seen_messages |-> {}, message_log |-> <<>>,
            data |-> GossipSetDefault, queued |-> [p \in Nodes |-> 0]],
   applied |-> FALSE, targets |-> None, chosen |-> <<>>, result |-> "Ok"]

NoHist ==
  [receives |-> 0, updates |-> 0, applied |-> 0, gossips |-> 0,
   first |-> "none"]

\* mb is the contents of the mailboxes when the call starts.
RecordFrom(mb, op, n, message, applied, targets, chosen, result) ==
  /\ last' = [op |-> op, node |-> n, msg |-> message,
              pre |-> [seen_messages |-> seen_messages[n],
                       message_log |-> message_log[n],
                       data |-> data[n],
                       queued |-> [p \in Nodes |-> Len(mb[p])]],
              applied |-> applied, targets |-> targets,
              chosen |-> chosen, result |-> result]
  /\ hist' = [hist EXCEPT ![n][message.id] =
       [receives |-> @.receives + (IF op = "receive" THEN 1 ELSE 0),
        updates |-> @.updates + (IF op = "update" THEN 1 ELSE 0),
        applied |-> @.applied + (IF applied THEN 1 ELSE 0),
        gossips |-> @.gossips + (IF targets.some THEN 1 ELSE 0),
        first |-> IF @.first = "none" THEN op ELSE @.first]]

\* A call that puts the replica back when the delivery fails.
FinishFrom_Rollback(mb, op, n, message, items, applied, targets) ==
  /\ IF targets.some
       THEN \E g \in gossip(mb, closed, message, targets.list, cfg.fanout) :
              /\ mailbox' = g.mailbox
              /\ data' = IF g.result = "Err" THEN data
                         ELSE [data EXCEPT ![n] = items]
              /\ RecordFrom(mb, op, n, message, applied, targets,
                            g.chosen, g.result)
       ELSE /\ mailbox' = mb
            /\ data' = [data EXCEPT ![n] = items]
            /\ RecordFrom(mb, op, n, message, applied, targets, <<>>, "Ok")
  /\ calls' = calls + 1
  /\ UNCHANGED <<cfg, closed, sets, dl, mux>>

\* The rest of a call: store the replica, gossip to the targets if there are
\* any, and return gossip's result (Ok when gossip is not called).
FinishFrom(mb, op, n, message, items, applied, targets) ==
  /\ data' = [data EXCEPT ![n] = items]
  /\ IF targets.some
       THEN \E g \in gossip(mb, closed, message, targets.list, cfg.fanout) :
              /\ mailbox' = g.mailbox
              /\ RecordFrom(mb, op, n, message, applied, targets,
                            g.chosen, g.result)
       ELSE /\ mailbox' = mb
            /\ RecordFrom(mb, op, n, message, applied, targets, <<>>, "Ok")
  /\ calls' = calls + 1
  /\ UNCHANGED <<cfg, closed, sets, dl, mux>>

\* A call made by the owner of the engine, with the mailboxes as they are.
Finish(op, n, message, items, applied, targets) ==
  FinishFrom(mailbox, op, n, message, items, applied, targets)

\* A receive that forgets the identifier when its delivery fails, so that
\* the next copy of the message is forwarded again.
UniformReceive_Retry(n, message) ==
  /\ cfg.engine = "uniform"
  /\ calls < MaxCalls
  /\ LET s == uniform_receive(n, seen_messages[n], data[n], message) IN
       /\ Finish("receive", n, message, s.data, s.applied, s.targets)
       /\ seen_messages' = IF last'.result = "Err"
                              THEN seen_messages
                              ELSE [seen_messages EXCEPT ![n] = s.seen]
  /\ UNCHANGED <<message_log, cult, drv, sight, harness>>

UniformReceive(n, message) ==
  /\ cfg.engine = "uniform"
  /\ calls < MaxCalls
  /\ LET s == uniform_receive(n, seen_messages[n], data[n], message) IN
       /\ seen_messages' = [seen_messages EXCEPT ![n] = s.seen]
       /\ Finish("receive", n, message, s.data, s.applied, s.targets)
  /\ UNCHANGED <<message_log, cult, drv, sight, harness>>

UniformUpdate(n, message) ==
  /\ cfg.engine = "uniform"
  /\ calls < MaxCalls
  /\ LET s == uniform_update(n, seen_messages[n], data[n], message) IN
       /\ seen_messages' = [seen_messages EXCEPT ![n] = s.seen]
       /\ Finish("update", n, message, s.data, s.applied, s.targets)
  /\ UNCHANGED <<message_log, cult, drv, sight, harness>>

PreferentialReceive(n, message) ==
  /\ cfg.engine = "preferential"
  /\ calls < MaxCalls
  /\ LET s == preferential_receive(n, message_log[n], data[n], message) IN
       /\ message_log' = [message_log EXCEPT ![n] = s.log]
       /\ Finish("receive", n, message, s.data, s.applied, s.targets)
  /\ UNCHANGED <<seen_messages, cult, drv, sight, harness>>

PreferentialUpdate(n, message) ==
  /\ cfg.engine = "preferential"
  /\ calls < MaxCalls
  /\ LET s == preferential_update(n, message_log[n], data[n], message) IN
       /\ message_log' = [message_log EXCEPT ![n] = s.log]
       /\ Finish("update", n, message, s.data, s.applied, s.targets)
  /\ UNCHANGED <<seen_messages, cult, drv, sight, harness>>

\* The worker that owns node n's mpsc::Receiver returns and drops it.
Close(n) ==
  /\ n \notin closed
  /\ closed' = closed \cup {n}
  /\ UNCHANGED <<cfg, seen_messages, message_log, data, mailbox,
                 calls, hist, last, sets, dl, mux, cult, drv, sight, harness>>

(***************************************************************************)
(* GossipSet replicas called directly, outside any engine.  sets records   *)
(* the replicas and, for each, the number of add_item and remove_item      *)
(* invocations per item (made directly or by update), the number of update *)
(* calls per message and the number of direct calls.                       *)
(***************************************************************************)
Replicas == {"left", "right"}

\* GossipSetMessage::add(value) and GossipSetMessage::remove(value).  The
\* replica does not read the identifier.
SetMessages == [id : {Message(1).id}, action : {"Add", "Remove"}, item : SetItems]

NoSets ==
  [items |-> [r \in Replicas |-> GossipSetDefault],
   adds |-> [r \in Replicas |-> [t \in SetItems |-> 0]],
   removes |-> [r \in Replicas |-> [t \in SetItems |-> 0]],
   fed |-> [r \in Replicas |-> [m \in SetMessages |-> 0]],
   direct |-> [r \in Replicas |-> 0],
   ops |-> 0]

\* set.add_item(item)
AddItem(r, item) ==
  /\ sets.ops < MaxOps
  /\ sets' = [sets EXCEPT !.items[r] = add_item(@, item),
                          !.adds[r][item] = @ + 1,
                          !.direct[r] = @ + 1,
                          !.ops = @ + 1]
  /\ UNCHANGED <<cfg, seen_messages, message_log, data, mailbox, closed,
                 calls, hist, last, dl, mux, cult, drv, sight, harness>>

\* set.remove_item(item)
RemoveItem(r, item) ==
  /\ sets.ops < MaxOps
  /\ sets' = [sets EXCEPT !.items[r] = remove_item(@, item),
                          !.removes[r][item] = @ + 1,
                          !.direct[r] = @ + 1,
                          !.ops = @ + 1]
  /\ UNCHANGED <<cfg, seen_messages, message_log, data, mailbox, closed,
                 calls, hist, last, dl, mux, cult, drv, sight, harness>>

\* set.update(&message)
SetUpdate(r, message) ==
  /\ sets.ops < MaxOps
  /\ sets' = [sets EXCEPT
       !.items[r] = data_update(@, message),
       !.adds[r][message.item] = @ + (IF message.action = "Add" THEN 1 ELSE 0),
       !.removes[r][message.item] =
          @ + (IF message.action = "Remove" THEN 1 ELSE 0),
       !.fed[r][message] = @ + 1,
       !.ops = @ + 1]
  /\ UNCHANGED <<cfg, seen_messages, message_log, data, mailbox, closed,
                 calls, hist, last, dl, mux, cult, drv, sight, harness>>

(***************************************************************************)
(* The multiplex adapter's delivery.  An endpoint is the Sender of a node  *)
(* group's mpsc channel, modelled by the group's index, with the index of  *)
(* the node within the group; what is enqueued is an Envelope.             *)
(***************************************************************************)
\* An addressing that fills one group before it starts the next.
for_node_Blocks(num_groups, global_node_index) ==
  [group_index |-> global_node_index \div num_groups,
   node_index |-> global_node_index % num_groups]

\* NodeGroupInfo::for_node
for_node(num_groups, global_node_index) ==
  [group_index |-> global_node_index % num_groups,
   node_index |-> global_node_index \div num_groups]

\* The MultiplexEndpoint the constructors build for the node j.
MultiplexEndpoint(j) ==
  [sender |-> for_node(NumGroups, j).group_index,
   node_index |-> for_node(NumGroups, j).node_index]

Envelope(message, node_index) ==
  [message |-> message, node_index |-> node_index]

\* Delivery for Multiplex: send an Envelope to each endpoint's group in
\* iteration order; `?` returns the SendError of the first endpoint whose
\* group's receiver is gone.
RECURSIVE multiplex_deliver(_, _, _, _)
multiplex_deliver(gmb, gcl, message, endpoints) ==
  IF endpoints = <<>>
    THEN [mailbox |-> gmb, result |-> "Ok"]
    ELSE IF Head(endpoints).sender \in gcl
      THEN [mailbox |-> gmb, result |-> "Err"]
      ELSE multiplex_deliver(
             [gmb EXCEPT ![Head(endpoints).sender] =
                Append(@, Envelope(message, Head(endpoints).node_index))],
             gcl, message, Tail(endpoints))

(***************************************************************************)
(* The UDP delivery of net.rs.  Its messages are the u8 values of the      *)
(* module's test and its serializer a ToBytes<u8>: the test's ByteSer,     *)
(* which gives the one-byte array of the value, made fallible as the trait *)
(* allows by a set of messages to_bytes fails on.  A socket address is     *)
(* modelled by the index of the node bound to it; send_to fails for the    *)
(* addresses in unreachable.                                               *)
(***************************************************************************)
UdpMessages == 0 .. MaxId

\* self.serializer.to_bytes(message)
to_bytes(rejected, message) ==
  IF message \in rejected
    THEN [ok |-> FALSE, bytes |-> <<>>]
    ELSE [ok |-> TRUE, bytes |-> <<message % 256>>]

\* for endpoint in endpoints { self.socket.send_to(bytes.as_ref(), endpoint)
\*   .map_err(Error::Send)?; } Ok(()): the datagrams put on the socket, the
\* number of send_to calls made, and the result.
RECURSIVE send_to_each(_, _, _, _)
send_to_each(socket, unreachable, bytes, endpoints) ==
  IF endpoints = <<>>
    THEN [socket |-> socket, attempts |-> 0, result |-> "Ok"]
    ELSE IF Head(endpoints) \in unreachable
      THEN [socket |-> socket, attempts |-> 1, result |-> "Send"]
      ELSE LET rest == send_to_each(
                         Append(socket, [to |-> Head(endpoints),
                                         bytes |-> bytes]),
                         unreachable, bytes, Tail(endpoints))
           IN [rest EXCEPT !.attempts = @ + 1]

\* A delivery that converts the message anew for every endpoint, inside the
\* loop: nothing is converted for an empty batch.
udp_deliver_ConvertPerEndpoint(rejected, unreachable, message, endpoints) ==
  IF endpoints = <<>>
    THEN [socket |-> <<>>, conversions |-> 0, attempts |-> 0,
          result |-> "Ok"]
    ELSE LET bytes == to_bytes(rejected, message) IN
         IF ~bytes.ok
           THEN [socket |-> <<>>, conversions |-> 1, attempts |-> 0,
                 result |-> "Serialization"]
           ELSE LET sent == send_to_each(<<>>, unreachable, bytes.bytes,
                                         endpoints)
                IN [socket |-> sent.socket, conversions |-> sent.attempts,
                    attempts |-> sent.attempts, result |-> sent.result]

\* UdpDelivery::deliver: to_bytes(message).map_err(Error::Serialization)?
\* and then the loop over the endpoints.
udp_deliver(rejected, unreachable, message, endpoints) ==
  LET bytes == to_bytes(rejected, message) IN
  IF ~bytes.ok
    THEN [socket |-> <<>>, conversions |-> 1, attempts |-> 0,
          result |-> "Serialization"]
    ELSE LET sent == send_to_each(<<>>, unreachable, bytes.bytes, endpoints)
         IN [socket |-> sent.socket, conversions |-> 1,
             attempts |-> sent.attempts, result |-> sent.result]

\* The UDP side of dl: the messages the serializer fails on, the addresses
\* send_to fails for, the to_bytes and send_to calls the last deliver made
\* and the datagrams it put on the socket.
NoUdp ==
  [rejected |-> {}, unreachable |-> {}, conversions |-> 0, attempts |-> 0,
   socket |-> <<>>]

\* dl: the group mailboxes, the groups whose receiver has been dropped, and
\* the last deliver call: the capability called, its arguments, the
\* mailboxes it started from and its result.
NoDeliverCall ==
  [group_mailbox |-> [g \in Groups |-> <<>>], group_closed |-> {},
   kind |-> "none", message |-> Message(1), endpoints |-> <<>>,
   pre |-> <<>>, result |-> "Ok", udp |-> NoUdp]

\* The batches of endpoints handed to deliver, as the nodes they lead to.
Batches == UNION { [1 .. k -> Nodes] : k \in 0 .. MaxBatch }

\* CHANNELS.deliver(&message, endpoints)
ChannelsDeliver(message, endpoints) ==
  /\ dl.kind = "none"
  /\ LET d == deliver(mailbox, closed, message, endpoints) IN
       /\ mailbox' = d.mailbox
       /\ dl' = [dl EXCEPT !.kind = "channels", !.message = message,
                           !.endpoints = endpoints, !.pre = mailbox,
                           !.result = d.result]
  /\ UNCHANGED <<cfg, seen_messages, message_log, data, closed,
                 calls, hist, last, sets, mux, cult, drv, sight, harness>>

\* MULTIPLEX.deliver(&message, endpoints)
MultiplexDeliver(message, batch) ==
  /\ dl.kind = "none"
  /\ LET endpoints == [k \in DOMAIN batch |-> MultiplexEndpoint(batch[k])]
         d == multiplex_deliver(dl.group_mailbox, dl.group_closed, message,
                                endpoints)
     IN dl' = [dl EXCEPT !.group_mailbox = d.mailbox,
                         !.kind = "multiplex", !.message = message,
                         !.endpoints = endpoints, !.pre = dl.group_mailbox,
                         !.result = d.result]
  /\ UNCHANGED <<cfg, seen_messages, message_log, data, mailbox, closed,
                 calls, hist, last, sets, mux, cult, drv, sight, harness>>

\* UdpDelivery::deliver(&message, endpoints)
UdpDeliver(message, endpoints) ==
  /\ dl.kind = "none"
  /\ LET d == udp_deliver(dl.udp.rejected, dl.udp.unreachable, message,
                          endpoints)
     IN dl' = [dl EXCEPT !.kind = "udp", !.message = message,
                         !.endpoints = endpoints, !.result = d.result,
                         !.udp.conversions = d.conversions,
                         !.udp.attempts = d.attempts,
                         !.udp.socket = d.socket]
  /\ UNCHANGED <<cfg, seen_messages, message_log, data, mailbox, closed,
                 calls, hist, last, sets, mux, cult, drv, sight, harness>>

(***************************************************************************)
(* The multiplex constructors, uniform_local_gossip_set and                *)
(* preferential_local_gossip_set: one mpsc channel per node group, and for *)
(* every node a sample of peers_per_node of the other nodes, each held as  *)
(* the endpoint that leads to it.  cfg.engine tells which constructor is   *)
(* called; mux holds its arguments num_groups and peers_per_node, the loop *)
(* index i, the number of channels created, what the loop has built for    *)
(* every node so far, gossips (per group, the nodes pushed to it, in       *)
(* order), and the node groups returned.                                   *)
(***************************************************************************)
\* The largest num_groups handed to the constructors.
MuxGroups == 1 .. (NumNodes + 1)

\* A sample that is used as it is drawn, the node's own index included.
skip_self_Kept(i, j) == j

\* .map(|j| if j < i { j } else { j + 1 })
skip_self(i, j) == IF j < i THEN j ELSE j + 1

\* An endpoint that addresses the node by its global index.
EndpointOf_GlobalSlot(num_groups, j) ==
  [sender |-> for_node(num_groups, j).group_index, node_index |-> j]

\* MultiplexEndpoint { sender: channels[group_index].0.clone(), node_index }
EndpointOf(num_groups, j) ==
  [sender |-> for_node(num_groups, j).group_index,
   node_index |-> for_node(num_groups, j).node_index]

\* sample(&mut rng, length, amount): amount distinct indices below length,
\* in any order.
sample(length, amount) ==
  { [k \in 1 .. amount |-> f[k] - 1] : f \in Injections(amount, length) }

NoMux ==
  [status |-> "none", num_groups |-> 1, peers_per_node |-> 0, i |-> 0,
   channels |-> 0,
   group_info |-> [n \in Nodes |-> for_node(1, 0)],
   primary |-> [n \in Nodes |-> FALSE],
   peers |-> [n \in Nodes |-> <<>>],
   primaries |-> [n \in Nodes |-> <<>>],
   secondaries |-> [n \in Nodes |-> <<>>],
   gossips |-> <<>>,
   groups |-> <<>>]

\* The constructor has been entered: the channels and the empty gossips
\* vectors are there, and the loop is about to start.
MuxEntered(num_groups, peers_per_node, engine) ==
  [NoMux EXCEPT
     !.status = "building",
     !.num_groups = num_groups,
     !.peers_per_node = peers_per_node,
     !.channels = IF engine = "uniform" THEN num_groups ELSE NumNodes,
     !.gossips = [g \in 1 .. num_groups |-> <<>>]]

\* One iteration of `for i in 0..num_nodes`.  sample panics when asked for
\* more indices than there are.
MuxAddNode ==
  /\ mux.status = "building"
  /\ mux.i < NumNodes
  /\ IF mux.peers_per_node > NumNodes - 1
       THEN mux' = [mux EXCEPT !.status = "panicked"]
       ELSE \E drawn \in sample(NumNodes - 1, mux.peers_per_node) :
              LET i == mux.i
                  js == [k \in DOMAIN drawn |-> skip_self(i, drawn[k])]
                  Endpoints(list) ==
                    [k \in DOMAIN list |-> EndpointOf(mux.num_groups, list[k])]
                  group_info == for_node(mux.num_groups, i)
              IN mux' = [mux EXCEPT
                   !.i = i + 1,
                   !.group_info[i] = group_info,
                   !.primary[i] =
                      cfg.engine = "preferential" /\ i < cfg.num_primaries,
                   !.peers[i] =
                      IF cfg.engine = "uniform" THEN Endpoints(js) ELSE <<>>,
                   !.primaries[i] =
                      IF cfg.engine = "uniform" THEN <<>>
                      ELSE Endpoints(SelectSeq(js,
                             LAMBDA j : j < cfg.num_primaries)),
                   !.secondaries[i] =
                      IF cfg.engine = "uniform" THEN <<>>
                      ELSE Endpoints(SelectSeq(js,
                             LAMBDA j : ~(j < cfg.num_primaries))),
                   !.gossips[group_info.group_index + 1] = Append(@, i)]
  /\ UNCHANGED <<cfg, seen_messages, message_log, data, mailbox, closed,
                 calls, hist, last, sets, dl, cult, drv, sight, harness>>

\* gossips.into_iter().zip(channels.into_iter()).map(..).collect(): the
\* node groups returned, each with its gossips and the index of its channel.
MuxCollect ==
  /\ mux.status = "building"
  /\ mux.i = NumNodes
  /\ mux' = [mux EXCEPT
       !.status = "built",
       !.groups = [k \in 1 .. Min(Len(mux.gossips), mux.channels) |->
                     [gossips |-> mux.gossips[k], channel |-> k - 1]]]
  /\ UNCHANGED <<cfg, seen_messages, message_log, data, mailbox, closed,
                 calls, hist, last, sets, dl, cult, drv, sight, harness>>

\* PrimaryColor, as the items of the replica.
Red == 1
Blue == 2
Green == 3

\* The bits color_for_set sets for a colour that is present.
RedBits == 16711680
GreenBits == 65280
BlueBits == 255

\* color_for_set: the three masks are disjoint, so or-ing them in is adding.
color_for_set(color_set) ==
  (IF is_present(color_set, Red) THEN RedBits ELSE 0)
    + (IF is_present(color_set, Green) THEN GreenBits ELSE 0)
    + (IF is_present(color_set, Blue) THEN BlueBits ELSE 0)

\* new_uniform: every watcher's colour is 0, and no call has been made.  ops
\* lists the calls made on the cult; in_tick, pos and some_messages_remaining
\* are tick's progress, returned is what the last tick returned.
NoCult ==
  [watcher_colors |-> [n \in Nodes |-> 0],
   ops |-> <<>>,
   in_tick |-> FALSE, pos |-> 0, some_messages_remaining |-> FALSE,
   returned |-> FALSE]

(***************************************************************************)
(* The example drivers.  examples/lset.rs runs a network of the channel    *)
(* adapter with one thread per node (run_node); the lset example of        *)
(* pheromessage runs a network of the multiplex adapter with one thread    *)
(* per node group (run_node_group).  In both, the main thread inserts an   *)
(* element at a start node, asks a target node for it until the answer is  *)
(* yes or time is up, and in the end sends Terminate down every sender and *)
(* joins the threads.  drv.kind tells which driver runs.                   *)
(*                                                                         *)
(* A driver message is {id, action}.  The actions are written as follows:  *)
(* "Add" and "Remove" are the set-modifying action that is gossiped and    *)
(* that the replica applies (ModifySet in examples/lset.rs,                *)
(* GossipModifySet in the multiplex driver); "ModifySetAdd" and            *)
(* "ModifySetRemove" are the multiplex driver's ModifySet, sent by the     *)
(* main thread only; "Terminate" and "Query" are the same in both, the     *)
(* item of a Query being the element asked for.  Every Query carries a     *)
(* Sender of the main thread's one answer channel.                         *)
(***************************************************************************)
\* Message::new draws a random identifier.  That of a Terminate or Query is
\* never read; it is modelled by the last identifier of the universe.
CommandId == Cardinality(Ids \cup NetIds)

Terminate == [id |-> CommandId, action |-> "Terminate", item |-> 0]

Query(element) == [id |-> CommandId, action |-> "Query", item |-> element]

\* Message::new(Action::ModifySet(GossipSetAction::Add(element))), as either
\* driver writes it.
ModifySetAdd(kind, element) ==
  [Message(2 * element - 1) EXCEPT
     !.action = IF kind = "node" THEN "Add" ELSE "ModifySetAdd"]

\* Message { id: message.id, action: Action::GossipModifySet(v) }
GossipModifySet(message) ==
  [message EXCEPT
     !.action = IF @ = "ModifySetAdd" THEN "Add" ELSE "Remove"]

\* The network the multiplex driver runs: the constructor called with
\* num_groups groups and peers_per_node = num_nodes - 1, so that every node
\* knows every other; the samples are taken as drawn in index order.
FullMuxOf(num_groups) ==
  LET Endpoints(list) ==
        [k \in DOMAIN list |-> EndpointOf(num_groups, list[k])]
      gossips ==
        [g \in 1 .. num_groups |->
           SelectSeq(channels,
                     LAMBDA j : for_node(num_groups, j).group_index = g - 1)]
      created == IF cfg.engine = "uniform" THEN num_groups ELSE NumNodes
  IN [NoMux EXCEPT
        !.status = "built",
        !.num_groups = num_groups,
        !.peers_per_node = NumNodes - 1,
        !.i = NumNodes,
        !.channels = created,
        !.group_info = [n \in Nodes |-> for_node(num_groups, n)],
        !.primary = [n \in Nodes |-> cfg.engine = "preferential" /\ primary(n)],
        !.peers = [n \in Nodes |->
                     IF cfg.engine = "uniform" THEN Endpoints(peers(n))
                     ELSE <<>>],
        !.primaries = [n \in Nodes |->
                         IF cfg.engine = "uniform" THEN <<>>
                         ELSE Endpoints(primaries(n))],
        !.secondaries = [n \in Nodes |->
                           IF cfg.engine = "uniform" THEN <<>>
                           ELSE Endpoints(secondaries(n))],
        !.gossips = gossips,
        !.groups = [k \in 1 .. Min(num_groups, created)
                      |-> [gossips |-> gossips[k], channel |-> k - 1]]]

\* The network with fewer groups than nodes.
FullMux == FullMuxOf(NumGroups)

\* The network with more groups than nodes, as main constructs it on a
\* machine with more processors than --nodes.
WideMux == FullMuxOf(NumNodes + 1)

\* The threads: one per node, or one per node group returned.
Workers(kind) ==
  IF kind = "node" THEN Nodes ELSE 0 .. (Len(mux.groups) - 1)

\* drv: the main thread's place in run_network (main, with the current
\* element and its target node, the elements inserted, the number of
\* queries sent and the index of the next sender to terminate), the answers
\* waiting in the main thread's answer channel, every thread's state
\* (running, leaving its function, returned) and result, the number of
\* Terminate and Query messages the main thread has put into mailboxes and
\* the number the threads have taken off them.
DriverStarted(kind) ==
  [kind |-> kind, main |-> "top", element |-> 0, target |-> 0,
   inserted |-> {},
   queries |-> 0, term |-> 0,
   answers |-> <<>>,
   thread |-> [w \in Workers(kind) |-> "running"],
   result |-> [w \in Workers(kind) |-> "Ok"],
   sent |-> [terminate |-> 0, query |-> 0],
   taken |-> [terminate |-> 0, query |-> 0]]

\* No driver runs.
NoDriver == [DriverStarted("node") EXCEPT !.kind = "none", !.main = "none"]

(***************************************************************************)
(* An engine call in the multiplex network.  The engines are the same; the *)
(* lists they hold are those the multiplex constructor built, and what     *)
(* they hand to is the multiplex delivery.                                 *)
(***************************************************************************)
\* What receive or update does to node n's engine, whichever engine it is.
EngineStep(op, n, message) ==
  IF cfg.engine = "uniform"
    THEN LET s == IF op = "receive"
                    THEN uniform_receive(n, seen_messages[n], data[n], message)
                    ELSE uniform_update(n, seen_messages[n], data[n], message)
         IN [seen |-> s.seen, log |-> message_log[n], data |-> s.data,
             applied |-> s.applied, targets |-> s.targets]
    ELSE LET s == IF op = "receive"
                    THEN preferential_receive(n, message_log[n], data[n],
                                              message)
                    ELSE preferential_update(n, message_log[n], data[n],
                                             message)
         IN [seen |-> seen_messages[n], log |-> s.log, data |-> s.data,
             applied |-> s.applied, targets |-> s.targets]

\* The list the multiplex constructor gave node n in place of the channel
\* adapter's list: its endpoints for the same nodes.
MuxList(n, list) ==
  LET all == IF cfg.engine = "uniform" THEN mux.peers[n]
             ELSE mux.primaries[n] \o mux.secondaries[n]
      Leads(e) == e.node_index * mux.num_groups + e.sender
  IN SelectSeq(all, LAMBDA e : \E k \in DOMAIN list : list[k] = Leads(e))

\* One receive or update call on node n's engine, the group mailboxes being
\* gmb when it starts.
MuxCall(gmb, op, n, message) ==
  LET s == EngineStep(op, n, message)
      list == MuxList(n, s.targets.list)
  IN /\ seen_messages' = [seen_messages EXCEPT ![n] = s.seen]
     /\ message_log' = [message_log EXCEPT ![n] = s.log]
     /\ data' = [data EXCEPT ![n] = s.data]
     /\ IF s.targets.some
          THEN \E chosen \in ChooseMultiple(list, cfg.fanout) :
                 LET d == multiplex_deliver(gmb, dl.group_closed, message,
                                            chosen)
                 IN /\ dl' = [dl EXCEPT !.group_mailbox = d.mailbox]
                    /\ RecordFrom(mailbox, op, n, message, s.applied,
                                  Some(list), chosen, d.result)
          ELSE /\ dl' = [dl EXCEPT !.group_mailbox = gmb]
               /\ RecordFrom(mailbox, op, n, message, s.applied, None,
                             <<>>, "Ok")
     /\ calls' = calls + 1
     /\ UNCHANGED <<cfg, mailbox, closed, sets, mux>>

(***************************************************************************)
(* A message_log called on its own: sight holds the log, the number of     *)
(* increment_seen calls made for every identifier, and the last call with  *)
(* the log it found and the count it returned.                             *)
(***************************************************************************)
SightIds == 1 .. (MaxId + 2)

NoSight ==
  [message_log |-> <<>>, calls |-> [i \in SightIds |-> 0],
   id |-> 0, before |-> <<>>, count |-> "Once"]

\* self.increment_seen(message_id)
IncrementSeen(id) ==
  /\ sight.calls[id] < MaxSightings
  /\ LET seen == increment_seen(sight.message_log, id) IN
       sight' = [message_log |-> seen.log,
                 calls |-> [sight.calls EXCEPT ![id] = @ + 1],
                 id |-> id, before |-> sight.message_log,
                 count |-> seen.count]
  /\ UNCHANGED <<cfg, seen_messages, message_log, data, mailbox, closed,
                 calls, hist, last, sets, dl, mux, cult, drv, harness>>

(***************************************************************************)
(* The local_network test of the channel adapter: one thread per node.     *)
(* harness holds, for every node, the operations its thread has still to   *)
(* originate and the place its thread is at, and the num_finished counter. *)
(* The test's 120 operations over 12 nodes are scaled to one operation per *)
(* node.                                                                   *)
(***************************************************************************)
\* operations.len()
HarnessOps == NumNodes

\* let ops_per_node = operations.len() / num_nodes;
ops_per_node == HarnessOps \div NumNodes

HarnessIds == 1 .. HarnessOps

\* The local_network test has not been started.
NoHarness ==
  [status |-> "none", work |-> [n \in Nodes |-> <<>>],
   thread |-> [n \in Nodes |-> "none"], num_finished |-> 0]

(***************************************************************************)
(* The specification: a network as the channel adapter constructs it, of   *)
(* which the engine of node Driven is called by its owner with arbitrary   *)
(* messages.  receive and update take &mut self and touch no other engine, *)
(* so the engines that are not called stay as constructed.  The owners of  *)
(* the other mailboxes may return and drop their receivers; they do so     *)
(* before the first call.  What a call does to the engine does not depend  *)
(* on the result of the delivery, so every pair of an engine state and a   *)
(* set of dropped receivers that a call can meet is met this way.          *)
(***************************************************************************)
Configs ==
  [engine : {"uniform"}, fanout : 0 .. MaxFanout, num_primaries : {0}]
    \cup
  [engine : {"preferential"}, fanout : 0 .. MaxFanout,
   num_primaries : 0 .. NumNodes]

Init ==
  /\ cfg \in Configs
  /\ seen_messages = [n \in Nodes |-> {}]
  /\ message_log = [n \in Nodes |-> <<>>]
  /\ data = [n \in Nodes |-> GossipSetDefault]
  /\ mailbox = [n \in Nodes |-> <<>>]
  /\ closed = {}
  /\ calls = 0
  /\ hist = [n \in Nodes |->
               [i \in Ids \cup NetIds \cup HarnessIds |-> NoHist]]
  /\ last = NoCall
  /\ sets = NoSets
  /\ dl = NoDeliverCall
  /\ mux = NoMux
  /\ cult = NoCult
  /\ drv = NoDriver
  /\ sight = NoSight
  /\ harness = NoHarness

Next ==
  \/ \E m \in Messages : UniformReceive(Driven, m)
  \/ \E m \in Messages : UniformUpdate(Driven, m)
  \/ \E m \in Messages : PreferentialReceive(Driven, m)
  \/ \E m \in Messages : PreferentialUpdate(Driven, m)
  \/ calls = 0 /\ \E n \in Nodes \ {Driven} : Close(n)

Spec == Init /\ [][Next]_vars

(***************************************************************************)
(* The network specification: the network as the channel adapter           *)
(* constructs it, with every node run by a worker.  A worker originates    *)
(* messages with update and takes the messages off its own mailbox, one at *)
(* a time and in arrival order, handing each to receive.  A message is     *)
(* originated once, at one node.  No worker returns, so no receiver is     *)
(* dropped and no delivery fails.                                          *)
(***************************************************************************)
\* One receive or update call on node n's engine, the mailboxes being mb
\* when it starts.
Call(mb, op, n, message) ==
  IF cfg.engine = "uniform"
    THEN LET s == IF op = "receive"
                    THEN uniform_receive(n, seen_messages[n], data[n], message)
                    ELSE uniform_update(n, seen_messages[n], data[n], message)
         IN /\ seen_messages' = [seen_messages EXCEPT ![n] = s.seen]
            /\ FinishFrom(mb, op, n, message, s.data, s.applied, s.targets)
            /\ UNCHANGED message_log
    ELSE LET s == IF op = "receive"
                    THEN preferential_receive(n, message_log[n], data[n],
                                              message)
                    ELSE preferential_update(n, message_log[n], data[n],
                                             message)
         IN /\ message_log' = [message_log EXCEPT ![n] = s.log]
            /\ FinishFrom(mb, op, n, message, s.data, s.applied, s.targets)
            /\ UNCHANGED seen_messages

\* The message with identifier i has been passed to update at some node.
Originated(i) == \E n \in Nodes : hist[n][i].updates > 0

\* node.gossip.update(&to_send)
NetUpdate(n, message) ==
  /\ ~Originated(message.id)
  /\ Call(mailbox, "update", n, message)
  /\ UNCHANGED <<cult, drv, sight, harness>>

\* node.receiver.recv() followed by node.gossip.receive(&message)
NetReceive(n) ==
  /\ mailbox[n] # <<>>
  /\ Call([mailbox EXCEPT ![n] = Tail(@)], "receive", n, Head(mailbox[n]))
  /\ UNCHANGED <<cult, drv, sight, harness>>

NetNext ==
  \/ \E n \in Nodes, m \in NetMessages : NetUpdate(n, m)
  \/ \E n \in Nodes : NetReceive(n)

NetSpec == Init /\ [][NetNext]_vars

(***************************************************************************)
(* The network of the full-fanout uniform constructor, with the workers    *)
(* scheduled fairly: a worker blocks in recv only while its mailbox is     *)
(* empty, so a message in a mailbox is eventually taken off it.            *)
(***************************************************************************)
FullFanoutUniform == cfg.engine = "uniform" /\ cfg.fanout >= NumNodes - 1

FairUniformInit == Init /\ FullFanoutUniform

FairUniformSpec ==
  /\ FairUniformInit
  /\ [][NetNext]_vars
  /\ \A n \in Nodes : WF_vars(NetReceive(n))

(***************************************************************************)
(* The network of any of the channel constructors, with the workers        *)
(* scheduled fairly in the same way.                                       *)
(***************************************************************************)
FairNetSpec ==
  /\ Init
  /\ [][NetNext]_vars
  /\ \A n \in Nodes : WF_vars(NetReceive(n))

(***************************************************************************)
(* The local_network test: uniform_local_gossip_set(num_nodes, fanout)     *)
(* with the fanout at half the number of nodes (6 of 12 in the test), the  *)
(* operations shuffled and dealt to the nodes, and one thread per node     *)
(* that originates its operations, receives while it waits between them,   *)
(* adds one to num_finished and then polls its mailbox until a receive     *)
(* times out with num_finished at num_nodes.  A thread is at "work" (the   *)
(* head of the work loop), at "wait" (the recv_timeout loop after an       *)
(* update), at "poll" (the closing loop), "unwinding" after an unwrap of   *)
(* an Err, or gone ("returned", "panicked"), its node and with it its      *)
(* Receiver dropped.                                                       *)
(***************************************************************************)
\* operations.shuffle(&mut thread_rng()): the operations in any order.
Shuffles ==
  { [k \in 1 .. HarnessOps |-> Message(f[k])] :
      f \in Injections(HarnessOps, HarnessOps) }

\* operations.drain(..ops_per_node) for every node in turn, and the threads
\* at the head of their work loops.
HarnessStarted(operations) ==
  [status |-> "running",
   work |-> [n \in Nodes |-> SubSeq(operations, n * ops_per_node + 1,
                                                (n + 1) * ops_per_node)],
   thread |-> [n \in Nodes |-> "work"],
   num_finished |-> 0]

\* .unwrap() on the result of the call just made: the thread goes on to
\* `then` on Ok and panics on Err.
Unwrap(n, then) ==
  [harness EXCEPT !.thread[n] =
     IF last'.result = "Ok" THEN then ELSE "unwinding"]

\* while let Some(to_send) = work.pop() { node.gossip.update(&to_send).unwrap()
HarnessUpdate(n) ==
  /\ harness.thread[n] = "work"
  /\ harness.work[n] # <<>>
  /\ LET to_send == harness.work[n][Len(harness.work[n])] IN
       /\ Call(mailbox, "update", n, to_send)
       /\ harness' = [Unwrap(n, "wait") EXCEPT !.work[n] =
                        SubSeq(@, 1, Len(@) - 1)]
  /\ UNCHANGED <<cult, drv, sight>>

\* while let Ok(message) = node.receiver.recv_timeout(random_wait) {
\*   node.gossip.receive(&message).unwrap(); ... }: a message is taken and
\* handed to receive; after it the wait is over, or there is time left.
HarnessWaitReceive(n) ==
  /\ harness.thread[n] = "wait"
  /\ mailbox[n] # <<>>
  /\ Call([mailbox EXCEPT ![n] = Tail(@)], "receive", n, Head(mailbox[n]))
  /\ \E then \in {"wait", "work"} : harness' = Unwrap(n, then)
  /\ UNCHANGED <<cult, drv, sight>>

\* recv_timeout(random_wait) returns Err: nothing arrived in time.
HarnessWaitTimeout(n) ==
  /\ harness.thread[n] = "wait"
  /\ mailbox[n] = <<>>
  /\ harness' = [harness EXCEPT !.thread[n] = "work"]
  /\ UNCHANGED <<cfg, seen_messages, message_log, data, mailbox, closed,
                 calls, hist, last, sets, dl, mux, cult, drv, sight>>

\* work.pop() returns None: num_finished.fetch_add(1, Ordering::Relaxed)
HarnessFinished(n) ==
  /\ harness.thread[n] = "work"
  /\ harness.work[n] = <<>>
  /\ harness' = [harness EXCEPT !.thread[n] = "poll",
                                !.num_finished = @ + 1]
  /\ UNCHANGED <<cfg, seen_messages, message_log, data, mailbox, closed,
                 calls, hist, last, sets, dl, mux, cult, drv, sight>>

\* Ok(message) => node.gossip.receive(&message).unwrap()
HarnessPollReceive(n) ==
  /\ harness.thread[n] = "poll"
  /\ mailbox[n] # <<>>
  /\ Call([mailbox EXCEPT ![n] = Tail(@)], "receive", n, Head(mailbox[n]))
  /\ harness' = Unwrap(n, "poll")
  /\ UNCHANGED <<cult, drv, sight>>

\* Every Sender of node n's channel has been dropped with its engine.
Disconnected(n) == \A p \in Nodes \ {n} : p \in closed

\* Err(Disconnected) => break, and Err(Timeout) => break when num_finished
\* has reached num_nodes: the thread returns node.gossip.data and the node,
\* its Receiver included, is dropped.  A timeout before that polls again.
HarnessPollTimeout(n) ==
  /\ harness.thread[n] = "poll"
  /\ mailbox[n] = <<>>
  /\ Disconnected(n) \/ harness.num_finished >= NumNodes
  /\ harness' = [harness EXCEPT !.thread[n] = "returned"]
  /\ closed' = closed \cup {n}
  /\ UNCHANGED <<cfg, seen_messages, message_log, data, mailbox,
                 calls, hist, last, sets, dl, mux, cult, drv, sight>>

\* The panic unwinds the thread's closure and drops the node.
HarnessUnwind(n) ==
  /\ harness.thread[n] = "unwinding"
  /\ harness' = [harness EXCEPT !.thread[n] = "panicked"]
  /\ closed' = closed \cup {n}
  /\ UNCHANGED <<cfg, seen_messages, message_log, data, mailbox,
                 calls, hist, last, sets, dl, mux, cult, drv, sight>>

HarnessNext ==
  \/ \E n \in Nodes : HarnessUpdate(n)
  \/ \E n \in Nodes : HarnessWaitReceive(n)
  \/ \E n \in Nodes : HarnessWaitTimeout(n)
  \/ \E n \in Nodes : HarnessFinished(n)
  \/ \E n \in Nodes : HarnessPollReceive(n)
  \/ \E n \in Nodes : HarnessPollTimeout(n)
  \/ \E n \in Nodes : HarnessUnwind(n)

HarnessInit ==
  /\ cfg = [engine |-> "uniform", fanout |-> NumNodes \div 2,
            num_primaries |-> 0]
  /\ seen_messages = [n \in Nodes |-> {}]
  /\ message_log = [n \in Nodes |-> <<>>]
  /\ data = [n \in Nodes |-> GossipSetDefault]
  /\ mailbox = [n \in Nodes |-> <<>>]
  /\ closed = {}
  /\ calls = 0
  /\ hist = [n \in Nodes |->
               [i \in Ids \cup NetIds \cup HarnessIds |-> NoHist]]
  /\ last = NoCall
  /\ sets = NoSets
  /\ dl = NoDeliverCall
  /\ mux = NoMux
  /\ cult = NoCult
  /\ drv = NoDriver
  /\ sight = NoSight
  /\ harness \in { HarnessStarted(operations) : operations \in Shuffles }

HarnessSpec == HarnessInit /\ [][HarnessNext]_vars

(***************************************************************************)
(* The cooperative simulation of pherogoose: a GooseCult of uniform        *)
(* engines, one watcher per node, whose peers are the message queues of    *)
(* all the other watchers, as in the channel adapter's uniform network.    *)
(* Nothing runs concurrently: add_color and remove_color run to their end, *)
(* and a tick sweeps the watchers in index order.  The sweep is taken one  *)
(* watcher at a time; no other call can start before tick has returned.    *)
(* Queues::deliver pushes a copy to the back of every endpoint's queue and *)
(* returns Ok, which is what the channel delivery does while no receiver   *)
(* has been dropped, and none is.                                          *)
(***************************************************************************)
\* The identifiers GossipSetMessage::add and GossipSetMessage::remove draw
\* for the messages of the simulation.
CultMessages == { Message(i) : i \in Ids \cup NetIds }

\* add_color(inspired_watcher, color), the colour being the message's item.
AddColor(n, message) ==
  /\ cfg.engine = "uniform"
  /\ ~cult.in_tick
  /\ Len(cult.ops) < MaxCultOps
  /\ message.action = "Add"
  /\ ~Originated(message.id)
  /\ Call(mailbox, "update", n, message)
  /\ cult' = [cult EXCEPT !.ops = Append(@, "add_color"),
                          !.watcher_colors[n] = color_for_set(data'[n])]
  /\ UNCHANGED <<drv, sight, harness>>

\* remove_color(inspired_watcher, color)
RemoveColor(n, message) ==
  /\ cfg.engine = "uniform"
  /\ ~cult.in_tick
  /\ Len(cult.ops) < MaxCultOps
  /\ message.action = "Remove"
  /\ ~Originated(message.id)
  /\ Call(mailbox, "update", n, message)
  /\ cult' = [cult EXCEPT !.ops = Append(@, "remove_color"),
                          !.watcher_colors[n] = color_for_set(data'[n])]
  /\ UNCHANGED <<drv, sight, harness>>

\* tick is entered: let mut some_messages_remaining = false
TickEnter ==
  /\ cfg.engine = "uniform"
  /\ ~cult.in_tick
  /\ Len(cult.ops) < MaxCultOps
  /\ cult' = [cult EXCEPT !.ops = Append(@, "tick"),
                          !.in_tick = TRUE,
                          !.pos = 0,
                          !.some_messages_remaining = FALSE]
  /\ UNCHANGED <<cfg, seen_messages, message_log, data, mailbox, closed,
                 calls, hist, last, sets, dl, mux, drv, sight, harness>>

\* A sweep that ends at the first watcher whose queue is empty.
TickWatcher_UntilIdle ==
  /\ cult.in_tick
  /\ cult.pos < NumNodes
  /\ IF mailbox[cult.pos] # <<>>
       THEN /\ Call([mailbox EXCEPT ![cult.pos] = Tail(@)], "receive",
                    cult.pos, Head(mailbox[cult.pos]))
            /\ cult' = [cult EXCEPT
                 !.pos = @ + 1,
                 !.watcher_colors[cult.pos] = color_for_set(data'[cult.pos]),
                 !.some_messages_remaining = TRUE]
       ELSE /\ cult' = [cult EXCEPT !.pos = NumNodes]
            /\ UNCHANGED <<cfg, seen_messages, message_log, data, mailbox,
                           closed, calls, hist, last, sets, dl, mux>>
  /\ UNCHANGED <<drv, sight, harness>>

\* One iteration of tick's loop over the watchers.
TickWatcher ==
  /\ cult.in_tick
  /\ cult.pos < NumNodes
  /\ IF mailbox[cult.pos] # <<>>
       THEN /\ Call([mailbox EXCEPT ![cult.pos] = Tail(@)], "receive",
                    cult.pos, Head(mailbox[cult.pos]))
            /\ cult' = [cult EXCEPT
                 !.pos = @ + 1,
                 !.watcher_colors[cult.pos] = color_for_set(data'[cult.pos]),
                 !.some_messages_remaining = TRUE]
       ELSE /\ cult' = [cult EXCEPT !.pos = @ + 1]
            /\ UNCHANGED <<cfg, seen_messages, message_log, data, mailbox,
                           closed, calls, hist, last, sets, dl, mux>>
  /\ UNCHANGED <<drv, sight, harness>>

\* tick returns some_messages_remaining.
TickReturn ==
  /\ cult.in_tick
  /\ cult.pos = NumNodes
  /\ cult' = [cult EXCEPT !.in_tick = FALSE,
                          !.returned = cult.some_messages_remaining]
  /\ UNCHANGED <<cfg, seen_messages, message_log, data, mailbox, closed,
                 calls, hist, last, sets, dl, mux, drv, sight, harness>>

CultNext ==
  \/ \E n \in Nodes, m \in CultMessages : AddColor(n, m)
  \/ \E n \in Nodes, m \in CultMessages : RemoveColor(n, m)
  \/ TickEnter
  \/ TickWatcher
  \/ TickReturn

\* UniformCult::new(num_watchers, fanout)
CultInit == Init /\ cfg.engine = "uniform"

CultSpec == CultInit /\ [][CultNext]_vars

(***************************************************************************)
(* The drivers' threads.  run_network's main thread and the worker threads *)
(* run concurrently; a step of the model is one send of the main thread,   *)
(* or one iteration of a worker's loop, or a worker's return, which drops  *)
(* its receiver.                                                           *)
(***************************************************************************)
\* The thread that serves node j, and what is put into its mailbox to hand
\* the message to node j.
WorkerOf(j) ==
  IF drv.kind = "node" THEN j
  ELSE for_node(Len(mux.groups), j).group_index

EntryFor(j, message) ==
  IF drv.kind = "node" THEN message
  ELSE Envelope(message, for_node(Len(mux.groups), j).node_index)

\* The receiver of worker w is gone.
Gone(w) == IF drv.kind = "node" THEN w \in closed ELSE w \in dl.group_closed

\* sender.send(entry) on the sender of worker w's channel.
Post(w, entry) ==
  IF drv.kind = "node"
    THEN /\ mailbox' = [mailbox EXCEPT ![w] = Append(@, entry)]
         /\ UNCHANGED dl
    ELSE /\ dl' = [dl EXCEPT !.group_mailbox[w] = Append(@, entry)]
         /\ UNCHANGED mailbox

\* A send of the main thread that is unwrapped: it panics when the receiver
\* is gone.
PostOrPanic(w, entry, then) ==
  IF Gone(w)
    THEN /\ drv' = [drv EXCEPT !.main = "panicked"]
         /\ UNCHANGED <<mailbox, dl>>
    ELSE /\ Post(w, entry)
         /\ drv' = then

\* The main thread inserts an element: it sends ModifySet(Add(element)) to
\* the start node, and will ask the target node for the element.
DriverInsert(element, start_node, target_node) ==
  /\ drv.main = "top"
  /\ element \notin drv.inserted
  /\ PostOrPanic(WorkerOf(start_node),
                 EntryFor(start_node, ModifySetAdd(drv.kind, element)),
                 [drv EXCEPT !.main = "query", !.element = element,
                             !.target = target_node,
                             !.inserted = @ \cup {element}])
  /\ UNCHANGED <<cfg, seen_messages, message_log, data, closed,
                 calls, hist, last, sets, mux, cult, sight, harness>>

\* The main thread sends a Query for the element to the target node.
DriverQuery ==
  /\ drv.main = "query"
  /\ drv.queries < MaxQueries
  /\ PostOrPanic(WorkerOf(drv.target),
                 EntryFor(drv.target, Query(drv.element)),
                 [drv EXCEPT !.main = "wait", !.queries = @ + 1,
                             !.sent.query = @ + 1])
  /\ UNCHANGED <<cfg, seen_messages, message_log, data, closed,
                 calls, hist, last, sets, mux, cult, sight, harness>>

\* rx.recv_timeout returns an answer: yes ends the wait for this element, no
\* makes the main thread ask again.
DriverAnswer ==
  /\ drv.main = "wait"
  /\ drv.answers # <<>>
  /\ drv' = [drv EXCEPT !.answers = Tail(@),
                        !.main = IF Head(drv.answers) THEN "top" ELSE "query"]
  /\ UNCHANGED <<cfg, seen_messages, message_log, data, mailbox, closed,
                 calls, hist, last, sets, dl, mux, cult, sight, harness>>

\* The multiplex driver gives an element up as lost when no yes has come
\* within the loss timeout, and goes on with the next element.
DriverLost ==
  /\ drv.kind = "group"
  /\ drv.main = "wait"
  /\ drv' = [drv EXCEPT !.main = "top"]
  /\ UNCHANGED <<cfg, seen_messages, message_log, data, mailbox, closed,
                 calls, hist, last, sets, dl, mux, cult, sight, harness>>

\* The end time is reached: at the top of the loop, or while waiting for an
\* answer.
DriverTimeUp ==
  /\ drv.main \in {"top", "wait"}
  /\ drv' = [drv EXCEPT !.main = "terminating"]
  /\ UNCHANGED <<cfg, seen_messages, message_log, data, mailbox, closed,
                 calls, hist, last, sets, dl, mux, cult, sight, harness>>

\* for sender in senders: send Terminate, to the node at index 0 of the node
\* group in the multiplex driver; an error of the send is logged and ignored.
DriverTerminate ==
  /\ drv.main = "terminating"
  /\ LET w == drv.term
         entry == IF drv.kind = "node" THEN Terminate
                  ELSE Envelope(Terminate, 0)
         then == [drv EXCEPT
                    !.term = @ + 1,
                    !.main = IF drv.term + 1 = Cardinality(Workers(drv.kind))
                               THEN "joining" ELSE @]
     IN IF Gone(w)
          THEN /\ drv' = then
               /\ UNCHANGED <<mailbox, dl>>
          ELSE /\ Post(w, entry)
               /\ drv' = [then EXCEPT !.sent.terminate = @ + 1]
  /\ UNCHANGED <<cfg, seen_messages, message_log, data, closed,
                 calls, hist, last, sets, mux, cult, sight, harness>>

\* for thread in threads: thread.join().unwrap(), taken as one step, since
\* a join does nothing but wait: every thread has returned.  A thread's Err
\* is logged, a thread's panic is passed on.
DriverJoin ==
  /\ drv.main = "joining"
  /\ \A w \in Workers(drv.kind) : drv.thread[w] = "returned"
  /\ drv' = [drv EXCEPT
       !.main = IF \E w \in Workers(drv.kind) : drv.result[w] = "panic"
                  THEN "panicked" ELSE "done"]
  /\ UNCHANGED <<cfg, seen_messages, message_log, data, mailbox, closed,
                 calls, hist, last, sets, dl, mux, cult, sight, harness>>

\* A worker that hands a Query to the engine like a gossiped message.
Dispatch_QueryReceived(kind, action) ==
  CASE action \in {"Add", "Remove", "Query"} -> "receive"
    [] action \in {"ModifySetAdd", "ModifySetRemove"} -> "update"
    [] action = "Terminate" -> "break"

\* The match on message.action in run_node and run_node_group: what the
\* worker does with a message.
Dispatch(kind, action) ==
  CASE action \in {"Add", "Remove"} -> "receive"
    [] action \in {"ModifySetAdd", "ModifySetRemove"} -> "update"
    [] action = "Terminate" -> "break"
    [] action = "Query" -> "answer"

\* What an iteration of a worker's loop leaves in drv, next to what the
\* engine call, if there is one, does: message was for node n, and result
\* is what the engine call returned.
Stepped(w, n, message, did, result) ==
  [drv EXCEPT
     !.answers = IF did = "answer"
                   THEN Append(@, is_present(data[n], message.item)) ELSE @,
     !.taken.terminate = @ + (IF message.action = "Terminate" THEN 1 ELSE 0),
     !.taken.query = @ + (IF message.action = "Query" THEN 1 ELSE 0),
     !.thread[w] = IF did = "break" \/ result = "Err" THEN "leaving" ELSE @,
     !.result[w] = result]

\* One iteration of run_node's loop: `while let Ok(message) = receiver.recv()`
RunNode(n) ==
  /\ drv.kind = "node"
  /\ drv.thread[n] = "running"
  /\ mailbox[n] # <<>>
  /\ LET message == Head(mailbox[n])
         popped == [mailbox EXCEPT ![n] = Tail(@)]
         did == Dispatch("node", message.action)
     IN IF did \in {"receive", "update"}
          THEN /\ Call(popped, did, n, message)
               /\ drv' = Stepped(n, n, message, did, last'.result)
          ELSE /\ mailbox' = popped
               /\ drv' = Stepped(n, n, message, did, "Ok")
               /\ UNCHANGED <<cfg, seen_messages, message_log, data, closed,
                              calls, hist, last, sets, dl, mux>>
  /\ UNCHANGED <<cult, sight, harness>>

\* One iteration of run_node_group's loop:
\* `while let Ok(envelope) = node_group.receiver.recv()`
RunNodeGroup(g) ==
  /\ drv.kind = "group"
  /\ drv.thread[g] = "running"
  /\ dl.group_mailbox[g] # <<>>
  /\ LET envelope == Head(dl.group_mailbox[g])
         popped == [dl.group_mailbox EXCEPT ![g] = Tail(@)]
         gossips == mux.groups[g + 1].gossips
         message == envelope.message
         did == Dispatch("group", message.action)
     IN IF envelope.node_index >= Len(gossips)
          THEN \* node_group.gossips[envelope.node_index] is out of bounds
               /\ dl' = [dl EXCEPT !.group_mailbox = popped]
               /\ drv' = [Stepped(g, 0, message, did, "panic") EXCEPT
                            !.answers = drv.answers,
                            !.thread[g] = "leaving"]
               /\ UNCHANGED <<cfg, seen_messages, message_log, data, mailbox,
                              closed, calls, hist, last, sets, mux>>
          ELSE LET n == gossips[envelope.node_index + 1] IN
               IF did = "receive"
                 THEN /\ MuxCall(popped, "receive", n, message)
                      /\ drv' = Stepped(g, n, message, did, last'.result)
               ELSE IF did = "update"
                 THEN /\ MuxCall(popped, "update", n, GossipModifySet(message))
                      /\ drv' = Stepped(g, n, message, did, last'.result)
               ELSE /\ dl' = [dl EXCEPT !.group_mailbox = popped]
                    /\ drv' = Stepped(g, n, message, did, "Ok")
                    /\ UNCHANGED <<cfg, seen_messages, message_log, data,
                                   mailbox, closed, calls, hist, last, sets,
                                   mux>>
  /\ UNCHANGED <<cult, sight, harness>>

\* The thread function of worker w returns, and its receiver is dropped.
ThreadReturn(w) ==
  /\ drv.kind # "none"
  /\ w \in Workers(drv.kind)
  /\ drv.thread[w] = "leaving"
  /\ drv' = [drv EXCEPT !.thread[w] = "returned"]
  /\ IF drv.kind = "node"
       THEN /\ closed' = closed \cup {w}
            /\ UNCHANGED dl
       ELSE /\ dl' = [dl EXCEPT !.group_closed = @ \cup {w}]
            /\ UNCHANGED closed
  /\ UNCHANGED <<cfg, seen_messages, message_log, data, mailbox,
                 calls, hist, last, sets, mux, cult, sight, harness>>

DriverNext ==
  \/ \E e \in Items, s, t \in Nodes : DriverInsert(e, s, t)
  \/ DriverQuery
  \/ DriverAnswer
  \/ DriverLost
  \/ DriverTimeUp
  \/ DriverTerminate
  \/ DriverJoin
  \/ \E n \in Nodes : RunNode(n)
  \/ \E g \in Workers("group") : RunNodeGroup(g)
  \/ \E w \in Workers(drv.kind) : ThreadReturn(w)

\* The networks main constructs: a uniform one when --primaries is 0, else a
\* preferential one.  The fanout is kept below MaxLoad \div NumNodes.
DriverConfigs ==
  { c \in Configs : /\ c.engine = "preferential" => c.num_primaries > 0
                    /\ c.fanout < MaxLoad \div NumNodes }

\* run_network has spawned the threads of either driver, on a network as
\* main has it constructed.
DriverInit ==
  /\ cfg \in DriverConfigs
  /\ seen_messages = [n \in Nodes |-> {}]
  /\ message_log = [n \in Nodes |-> <<>>]
  /\ data = [n \in Nodes |-> GossipSetDefault]
  /\ mailbox = [n \in Nodes |-> <<>>]
  /\ closed = {}
  /\ calls = 0
  /\ hist = [n \in Nodes |->
               [i \in Ids \cup NetIds \cup HarnessIds |-> NoHist]]
  /\ last = NoCall
  /\ sets = NoSets
  /\ mux \in {NoMux, FullMux, WideMux}
  /\ dl = [NoDeliverCall EXCEPT
             !.group_mailbox = [g \in Workers("group") |-> <<>>]]
  /\ drv = DriverStarted(IF mux = NoMux THEN "node" ELSE "group")
  /\ cult = NoCult
  /\ sight = NoSight
  /\ harness = NoHarness

DriverSpec == DriverInit /\ [][DriverNext]_vars

(***************************************************************************)
(* The drivers with their threads scheduled fairly: a worker blocks in     *)
(* recv only while its mailbox is empty, a thread that leaves its function *)
(* returns, and the main thread goes through its two closing loops without *)
(* waiting for anything but the threads it joins.                          *)
(***************************************************************************)
FairDriverSpec ==
  /\ DriverInit
  /\ [][DriverNext]_vars
  /\ \A n \in Nodes : WF_vars(RunNode(n))
  /\ \A g \in 0 .. NumNodes :
       WF_vars(g \in Workers("group") /\ RunNodeGroup(g))
  /\ \A w \in 0 .. NumNodes : WF_vars(ThreadReturn(w))
  /\ WF_vars(DriverTerminate)
  /\ WF_vars(DriverJoin)

(***************************************************************************)
(* The replica specification: two GossipSet replicas, each called with     *)
(* arbitrary add_item, remove_item and update calls in any order.          *)
(***************************************************************************)
SetNext ==
  \/ \E r \in Replicas, t \in SetItems : AddItem(r, t)
  \/ \E r \in Replicas, t \in SetItems : RemoveItem(r, t)
  \/ \E r \in Replicas, m \in SetMessages : SetUpdate(r, m)

\* The replicas are called outside any engine: the network is one of the
\* constructed ones and stays as constructed.
SetInit == Init /\ FullFanoutUniform

SetSpec == SetInit /\ [][SetNext]_vars

(***************************************************************************)
(* The delivery specification: one deliver call of either capability, with *)
(* an arbitrary batch of endpoints, any of the receivers having been       *)
(* dropped beforehand.                                                     *)
(***************************************************************************)
DeliveryInit ==
  /\ cfg \in Configs /\ FullFanoutUniform
  /\ seen_messages = [n \in Nodes |-> {}]
  /\ message_log = [n \in Nodes |-> <<>>]
  /\ data = [n \in Nodes |-> GossipSetDefault]
  /\ mailbox = [n \in Nodes |-> <<>>]
  /\ closed \in SUBSET Nodes
  /\ calls = 0
  /\ hist = [n \in Nodes |->
               [i \in Ids \cup NetIds \cup HarnessIds |-> NoHist]]
  /\ last = NoCall
  /\ sets = NoSets
  /\ dl \in { [NoDeliverCall EXCEPT !.group_closed = gc] :
                gc \in SUBSET Groups }
  /\ mux = NoMux
  /\ cult = NoCult
  /\ drv = NoDriver
  /\ sight = NoSight
  /\ harness = NoHarness

DeliveryNext ==
  \/ \E m \in Messages, e \in Batches : ChannelsDeliver(m, e)
  \/ \E m \in Messages, e \in Batches : MultiplexDeliver(m, e)

DeliverySpec == DeliveryInit /\ [][DeliveryNext]_vars

(***************************************************************************)
(* The UDP delivery specification: one deliver call of a UdpDelivery, with *)
(* any serializer and any set of addresses the socket cannot send to, on   *)
(* an arbitrary message and batch of addresses.                            *)
(***************************************************************************)
UdpInit ==
  /\ cfg \in Configs /\ FullFanoutUniform
  /\ seen_messages = [n \in Nodes |-> {}]
  /\ message_log = [n \in Nodes |-> <<>>]
  /\ data = [n \in Nodes |-> GossipSetDefault]
  /\ mailbox = [n \in Nodes |-> <<>>]
  /\ closed = {}
  /\ calls = 0
  /\ hist = [n \in Nodes |->
               [i \in Ids \cup NetIds \cup HarnessIds |-> NoHist]]
  /\ last = NoCall
  /\ sets = NoSets
  /\ dl \in { [NoDeliverCall EXCEPT !.udp.rejected = r,
                                    !.udp.unreachable = u] :
                r \in SUBSET UdpMessages, u \in SUBSET Nodes }
  /\ mux = NoMux
  /\ cult = NoCult
  /\ drv = NoDriver
  /\ sight = NoSight
  /\ harness = NoHarness

UdpNext == \E m \in UdpMessages, e \in Batches : UdpDeliver(m, e)

UdpSpec == UdpInit /\ [][UdpNext]_vars

(***************************************************************************)
(* The construction specification: a multiplex constructor called with any *)
(* of the arguments, run one loop iteration at a time.                     *)
(***************************************************************************)
MuxInit ==
  /\ cfg \in Configs
  /\ seen_messages = [n \in Nodes |-> {}]
  /\ message_log = [n \in Nodes |-> <<>>]
  /\ data = [n \in Nodes |-> GossipSetDefault]
  /\ mailbox = [n \in Nodes |-> <<>>]
  /\ closed = {}
  /\ calls = 0
  /\ hist = [n \in Nodes |->
               [i \in Ids \cup NetIds \cup HarnessIds |-> NoHist]]
  /\ last = NoCall
  /\ sets = NoSets
  /\ dl = NoDeliverCall
  /\ mux \in { MuxEntered(num_groups, peers_per_node, cfg.engine) :
                 num_groups \in MuxGroups, peers_per_node \in 0 .. NumNodes }
  /\ cult = NoCult
  /\ drv = NoDriver
  /\ sight = NoSight
  /\ harness = NoHarness

MuxNext ==
  \/ MuxAddNode
  \/ MuxCollect

MuxSpec == MuxInit /\ [][MuxNext]_vars

(***************************************************************************)
(* The seen-count specification: increment_seen called on one log with any *)
(* identifiers in any order.                                               *)
(***************************************************************************)
SightInit == Init /\ FullFanoutUniform

SightNext == \E id \in SightIds : IncrementSeen(id)

SightSpec == SightInit /\ [][SightNext]_vars

(***************************************************************************)
(* What the last call did, read off the state.                             *)
(***************************************************************************)
Range(seq) == { seq[k] : k \in DOMAIN seq }

\* The calls so far on the last call's engine for the last call's identifier.
LastHist == hist[last.node][last.msg.id]

\* The number of messages the last call enqueued into node p's mailbox.
Sent(p) == Len(mailbox[p]) - last.pre.queued[p]

RECURSIVE SentTo(_)
SentTo(S) ==
  IF S = {} THEN 0
  ELSE LET p == CHOOSE x \in S : TRUE IN Sent(p) + SentTo(S \ {p})

TotalSent == SentTo(Nodes)

\* Every message the last call enqueued is a copy of the call's message.
SentCopies ==
  \A p \in Nodes : \A k \in (last.pre.queued[p] + 1) .. Len(mailbox[p]) :
    mailbox[p][k] = last.msg

\* The last call did not call gossip and enqueued nothing.
NoDelivery ==
  /\ ~last.targets.some
  /\ last.chosen = <<>>
  /\ \A p \in Nodes : Sent(p) = 0

\* The last call called gossip, and every endpoint handed to the delivery
\* capability and every mailbox that grew is an element of list.
ForwardedOnlyTo(list) ==
  /\ last.targets.some
  /\ Range(last.chosen) \subseteq Range(list)
  /\ \A p \in Nodes : Sent(p) > 0 => p \in Range(list)
  /\ SentCopies

ReplicaUnchanged == data[last.node] = last.pre.data

\* data.update(m) was applied to the replica once.
ReplicaUpdatedOnce ==
  /\ last.applied
  /\ data[last.node] = data_update(last.pre.data, last.msg)
  /\ data[last.node] # last.pre.data

UniformCall(op) == cfg.engine = "uniform" /\ last.op = op
PreferentialCall(op) == cfg.engine = "preferential" /\ last.op = op

\* The seen count after the k-th call for an identifier.
SeenCountAfter(k) ==
  IF k = 1 THEN "Once" ELSE IF k = 2 THEN "Twice" ELSE "MoreThanTwice"

\* The seen count the last call's increment_seen left in message_log.
PostCount == message_log[last.node][last.msg.id]

(***************************************************************************)
(* C1.  Uniform engine, duplicate receive: a receive of a message whose    *)
(* identifier is already in seen_messages leaves the replica and the seen  *)
(* set unchanged, does not call gossip, enqueues nothing and returns Ok,   *)
(* whatever mailboxes are closed.  Hence, over receives alone, an          *)
(* identifier is applied once and gossiped once however often it arrives.  *)
(***************************************************************************)
C1_UniformDuplicateReceive ==
  /\ (UniformCall("receive") /\ last.msg.id \in last.pre.seen_messages) =>
       /\ ReplicaUnchanged
       /\ seen_messages[last.node] = last.pre.seen_messages
       /\ ~last.applied
       /\ NoDelivery
       /\ last.result = "Ok"
  /\ \A n \in Nodes, i \in Ids :
       (cfg.engine = "uniform" /\ hist[n][i].updates = 0
          /\ hist[n][i].receives >= 1) =>
         hist[n][i].applied = 1 /\ hist[n][i].gossips = 1

\* The third receive of an identifier, with every peer's mailbox closed.
C1_Witness ==
  /\ UniformCall("receive")
  /\ LastHist.receives = 3 /\ LastHist.updates = 0
  /\ closed = Nodes \ {last.node}
  /\ cfg.fanout > 0

(***************************************************************************)
(* C2.  Uniform engine, first-sight receive: a receive of a message whose  *)
(* identifier is not in seen_messages inserts the identifier, applies      *)
(* data.update once, and hands the message to the delivery capability only *)
(* for endpoints of the engine's own peers list.                           *)
(***************************************************************************)
C2_UniformFirstSightReceive ==
  (UniformCall("receive") /\ last.msg.id \notin last.pre.seen_messages) =>
    /\ seen_messages[last.node] = last.pre.seen_messages \cup {last.msg.id}
    /\ ReplicaUpdatedOnce
    /\ LastHist.applied = 1
    /\ ForwardedOnlyTo(peers(last.node))
    /\ last.node \notin Range(last.chosen)

\* A first-sight receive that reached a peer.
C2_Witness ==
  /\ UniformCall("receive")
  /\ last.msg.id \notin last.pre.seen_messages
  /\ last.result = "Ok"
  /\ \E p \in Nodes : Sent(p) = 1

(***************************************************************************)
(* C3.  Uniform engine, local update followed by echo: after update(m) the *)
(* identifier is in the node's seen set, and a later receive(m) at the     *)
(* node neither applies data.update nor forwards.                          *)
(***************************************************************************)
C3_UniformUpdateThenEcho ==
  /\ \A n \in Nodes, i \in Ids :
       (cfg.engine = "uniform" /\ hist[n][i].updates >= 1) =>
         i \in seen_messages[n]
  /\ (UniformCall("receive") /\ LastHist.updates >= 1) =>
       /\ ~last.applied
       /\ ReplicaUnchanged
       /\ NoDelivery

\* The rumor of a local update comes back to its origin.
C3_Witness ==
  /\ UniformCall("receive")
  /\ LastHist.first = "update"
  /\ LastHist.updates = 1 /\ LastHist.receives = 1
  /\ cfg.fanout > 0
  /\ closed = {}

(***************************************************************************)
(* C4.  Engine-enforced idempotence.  As claimed: data.update is invoked   *)
(* at most once per message identifier in every sequence of receive and    *)
(* update calls.                                                           *)
(***************************************************************************)
C4_Claimed_AtMostOncePerId ==
  \A n \in Nodes, i \in Ids : hist[n][i].applied <= 1

(***************************************************************************)
(* C4, amended.  Every update call invokes data.update, seen identifier or *)
(* not, and a receive call invokes it only when it is the first call for   *)
(* the identifier: the invocations for an identifier are its update calls  *)
(* plus one if its first call was a receive, so they are at most one when  *)
(* update is called at most once for it and not after a receive of it.     *)
(***************************************************************************)
C4_AppliedPerId ==
  \A n \in Nodes, i \in Ids :
    /\ hist[n][i].applied =
         hist[n][i].updates + (IF hist[n][i].first = "receive" THEN 1 ELSE 0)
    /\ (hist[n][i].updates = 0 \/
          (hist[n][i].updates = 1 /\ hist[n][i].first = "update")) =>
         hist[n][i].applied <= 1

\* An identifier received twice and then passed to update.
C4_Witness ==
  \E n \in Nodes, i \in Ids :
    /\ hist[n][i].first = "receive"
    /\ hist[n][i].receives = 2
    /\ hist[n][i].updates = 1
    /\ hist[n][i].applied = 2

(***************************************************************************)
(* C5.  Dedup idempotence.  As claimed: for every engine and role, a       *)
(* repeated delivery of an identifier through receive changes neither the  *)
(* replica nor the outbound sends (it sends nothing more).                 *)
(***************************************************************************)
C5_Claimed_RepeatSendsNothing ==
  (last.op = "receive" /\ LastHist.updates = 0 /\ LastHist.receives >= 2) =>
    /\ ReplicaUnchanged
    /\ \A p \in Nodes : Sent(p) = 0

(***************************************************************************)
(* C5, amended.  A repeated delivery through receive never changes the     *)
(* replica.  On a uniform engine and on a preferential secondary it calls  *)
(* no delivery; on a preferential primary the second delivery forwards the *)
(* message to members of its secondaries, and the third and later ones     *)
(* call no delivery.                                                       *)
(***************************************************************************)
C5_RepeatedReceive ==
  (last.op = "receive" /\ LastHist.updates = 0 /\ LastHist.receives >= 2) =>
    /\ ReplicaUnchanged
    /\ ~last.applied
    /\ IF cfg.engine = "preferential" /\ primary(last.node)
            /\ LastHist.receives = 2
         THEN ForwardedOnlyTo(secondaries(last.node))
         ELSE NoDelivery

\* The second delivery to a primary reaches a secondary.
C5_Witness ==
  /\ PreferentialCall("receive")
  /\ primary(last.node)
  /\ LastHist.updates = 0 /\ LastHist.receives = 2
  /\ \E p \in Nodes : Sent(p) = 1 /\ ~primary(p)

(***************************************************************************)
(* C6.  Preferential forwarding rule for a primary: with post-increment    *)
(* seen count c, receive forwards only to members of primaries when c is   *)
(* Once, only to members of secondaries when c is Twice, and calls no      *)
(* delivery when c is MoreThanTwice.                                       *)
(***************************************************************************)
C6_PrimaryForwarding ==
  (PreferentialCall("receive") /\ primary(last.node)) =>
    /\ PostCount = "Once" =>
         ForwardedOnlyTo(primaries(last.node))
           /\ last.targets.list = primaries(last.node)
    /\ PostCount = "Twice" =>
         ForwardedOnlyTo(secondaries(last.node))
           /\ last.targets.list = secondaries(last.node)
    /\ PostCount = "MoreThanTwice" => NoDelivery
    /\ PostCount \in {"Once", "Twice", "MoreThanTwice"}

\* A primary that originated a message sees it come back and bleeds it to a
\* secondary.
C6_Witness ==
  /\ PreferentialCall("receive")
  /\ primary(last.node)
  /\ PostCount = "Twice"
  /\ LastHist.first = "update"
  /\ \E p \in Nodes : Sent(p) = 1 /\ p >= cfg.num_primaries

(***************************************************************************)
(* C7.  Preferential forwarding rule for a secondary: receive forwards     *)
(* only to members of secondaries when c is Once and calls no delivery     *)
(* when c is Twice or MoreThanTwice; a receive at a secondary never sends  *)
(* to a primary.                                                           *)
(***************************************************************************)
C7_SecondaryForwarding ==
  (PreferentialCall("receive") /\ ~primary(last.node)) =>
    /\ PostCount = "Once" =>
         ForwardedOnlyTo(secondaries(last.node))
           /\ last.targets.list = secondaries(last.node)
    /\ PostCount # "Once" => NoDelivery
    /\ \A p \in Nodes : Sent(p) > 0 => ~(p < cfg.num_primaries)
    /\ \A p \in Range(last.chosen) : ~(p < cfg.num_primaries)

\* A secondary, with a primary among its peers, passes a first sighting on
\* to a secondary.
C7_Witness ==
  /\ PreferentialCall("receive")
  /\ ~primary(last.node)
  /\ primaries(last.node) # <<>>
  /\ PostCount = "Once"
  /\ \E p \in Nodes : Sent(p) = 1

(***************************************************************************)
(* C8.  Preferential replica mutation only on first sight: receive applies *)
(* data.update exactly when the post-increment seen count is Once; the     *)
(* second receipt at a primary forwards to secondaries and leaves the      *)
(* replica unchanged, and so does every later receipt.                     *)
(***************************************************************************)
C8_MutationOnlyOnFirstSight ==
  PreferentialCall("receive") =>
    /\ PostCount = SeenCountAfter(LastHist.receives + LastHist.updates)
    /\ last.applied <=> PostCount = "Once"
    /\ PostCount = "Once" => ReplicaUpdatedOnce
    /\ PostCount # "Once" => ReplicaUnchanged
    /\ (primary(last.node) /\ PostCount = "Twice") =>
         last.targets = Some(secondaries(last.node))

\* The third receipt of a message that changed the replica on its first.
C8_Witness ==
  /\ PreferentialCall("receive")
  /\ LastHist.receives = 3 /\ LastHist.updates = 0
  /\ PostCount = "MoreThanTwice"
  /\ data[last.node] # GossipSetDefault
  /\ LastHist.applied = 1

(***************************************************************************)
(* C9.  Preferential local update.  As claimed: update applies             *)
(* data.update, records the identifier with seen count Once, and forwards  *)
(* to members of primaries only, whatever the engine's role.               *)
(***************************************************************************)
C9_Claimed_UpdateRecordsOnce ==
  PreferentialCall("update") =>
    /\ ReplicaUpdatedOnce
    /\ PostCount = "Once"
    /\ ForwardedOnlyTo(primaries(last.node))

(***************************************************************************)
(* C9, amended.  update applies data.update, bumps the identifier's seen   *)
(* count by one saturating step (to Once when the identifier was absent,   *)
(* on from the stored count when the engine had already seen it), and      *)
(* forwards to members of primaries only, whatever the engine's role.      *)
(***************************************************************************)
C9_PreferentialUpdate ==
  PreferentialCall("update") =>
    /\ ReplicaUpdatedOnce
    /\ PostCount = SeenCountAfter(LastHist.receives + LastHist.updates)
    /\ last.msg.id \notin DOMAIN last.pre.message_log => PostCount = "Once"
    /\ ForwardedOnlyTo(primaries(last.node))
    /\ last.targets.list = primaries(last.node)
    /\ \A p \in Nodes : Sent(p) > 0 => p < cfg.num_primaries

\* A secondary with a secondary peer originates a message: it reaches a
\* primary and no secondary.
C9_Witness ==
  /\ PreferentialCall("update")
  /\ ~primary(last.node)
  /\ secondaries(last.node) # <<>>
  /\ last.msg.id \notin DOMAIN last.pre.message_log
  /\ \E p \in Nodes : Sent(p) = 1 /\ p < cfg.num_primaries

(***************************************************************************)
(* C10.  Fanout bound.  As claimed: every first-sight receive and every    *)
(* update causes at most fanout outbound sends, exactly                    *)
(* min(fanout, |targets|) when the target list is not empty and none when  *)
(* it is.                                                                  *)
(***************************************************************************)
FirstSightOrUpdate ==
  \/ last.op = "update"
  \/ last.op = "receive" /\ LastHist.receives + LastHist.updates = 1

C10_Claimed_ExactSends ==
  FirstSightOrUpdate =>
    /\ TotalSent <= cfg.fanout
    /\ TotalSent = Min(cfg.fanout, Len(last.targets.list))

(***************************************************************************)
(* C10, amended.  Every first-sight receive and every update calls gossip, *)
(* and every gossip call hands exactly min(fanout, |targets|) endpoints to *)
(* the delivery capability (none when the target list is empty), so it     *)
(* makes at most fanout sends: exactly that many when the delivery returns *)
(* Ok, and fewer when it returns an error at a closed mailbox.             *)
(***************************************************************************)
C10_FanoutBound ==
  /\ FirstSightOrUpdate => last.targets.some
  /\ last.targets.some =>
       /\ Len(last.chosen) = Min(cfg.fanout, Len(last.targets.list))
       /\ Len(last.chosen) <= cfg.fanout
       /\ TotalSent <= Len(last.chosen)
       /\ last.result = "Ok" => TotalSent = Len(last.chosen)
       /\ last.result = "Err" => TotalSent < Len(last.chosen)
       /\ last.targets.list = <<>> => TotalSent = 0
  /\ ~last.targets.some => TotalSent = 0

\* A gossip to fewer peers than the target list holds.
C10_Witness ==
  /\ FirstSightOrUpdate
  /\ cfg.fanout > 0
  /\ Len(last.targets.list) > cfg.fanout
  /\ last.result = "Ok"
  /\ TotalSent = cfg.fanout

(***************************************************************************)
(* C11.  Fanout selection without replacement.  As claimed: when the       *)
(* target list holds no more than fanout peers, every peer of the list     *)
(* receives exactly one copy from the gossip call.                         *)
(***************************************************************************)
C11_Claimed_EveryPeerOneCopy ==
  (last.targets.some /\ Len(last.targets.list) <= cfg.fanout) =>
    \A p \in Range(last.targets.list) : Sent(p) = 1

\* The endpoints the last gossip call chose are the elements at pairwise
\* distinct positions of its target list.
ChosenWithoutReplacement ==
  \E f \in Injections(Len(last.chosen), Len(last.targets.list)) :
    \A k \in DOMAIN last.chosen : last.chosen[k] = last.targets.list[f[k]]

\* The number of times the peer p is among the chosen endpoints.
TimesChosen(p) == Cardinality({ k \in DOMAIN last.chosen : last.chosen[k] = p })

(***************************************************************************)
(* C11, amended.  The endpoints one gossip call hands to the delivery      *)
(* capability are pairwise distinct positions of the target list, so no    *)
(* peer is handed over twice and no peer gets two copies from one call.    *)
(* When the target list holds no more than fanout peers every peer of the  *)
(* list is handed over exactly once, and receives exactly one copy if the  *)
(* delivery returns Ok; if it returns an error at a closed mailbox, only   *)
(* the peers ahead of that mailbox have received their copy.               *)
(***************************************************************************)
C11_SelectionWithoutReplacement ==
  last.targets.some =>
    /\ ChosenWithoutReplacement
    /\ \A p \in Nodes : TimesChosen(p) <= 1 /\ Sent(p) <= TimesChosen(p)
    /\ SentCopies
    /\ Len(last.targets.list) <= cfg.fanout =>
         /\ \A p \in Range(last.targets.list) : TimesChosen(p) = 1
         /\ last.result = "Ok" =>
              \A p \in Range(last.targets.list) : Sent(p) = 1
         /\ last.result = "Err" =>
              \E p \in Range(last.targets.list) : Sent(p) = 0

\* A gossip that reaches every peer of a target list of two.
C11_Witness ==
  /\ last.targets.some
  /\ Len(last.targets.list) = 2
  /\ Len(last.targets.list) <= cfg.fanout
  /\ last.result = "Ok"
  /\ \A p \in Range(last.targets.list) : Sent(p) = 1

(***************************************************************************)
(* The network at rest, and what has been originated in it.                *)
(***************************************************************************)
\* Every mailbox is drained.
Quiesced == \A n \in Nodes : mailbox[n] = <<>>

\* The number of originated messages that add, or remove, the item t.
Injected(action, t) ==
  Cardinality({ i \in NetIds : /\ Originated(i)
                               /\ Message(i).action = action
                               /\ Message(i).item = t })

\* Node n's replica answers is_present as the originated messages demand.
Converged(n) ==
  \A t \in NetItems :
    is_present(data[n], t) = (Injected("Add", t) > Injected("Remove", t))

AppliedEverywhere(i) == \A n \in Nodes : hist[n][i].applied = 1

C13_FullFanoutConvergence ==
  /\ \A i \in NetIds : [](Originated(i) => <>AppliedEverywhere(i))
  /\ [](\A n \in Nodes, i \in NetIds : hist[n][i].applied <= 1)
  /\ <>[]Quiesced
  /\ [](Quiesced => \A n, o \in Nodes : data[n] = data[o])

\* Every message has been originated and applied once by every replica, the
\* replicas holding a counter for it, and the network is at rest.
C13_Witness ==
  /\ FullFanoutUniform /\ cfg.fanout >= 1
  /\ Quiesced
  /\ \A i \in NetIds : Originated(i) /\ AppliedEverywhere(i)
  /\ \A n \in Nodes : data[n] = data[0] /\ DOMAIN data[n] = NetItems

(***************************************************************************)
(* C14.  Preferential propagation to every node.  As claimed: in a         *)
(* preferential network with 1 <= num_primaries < num_nodes,               *)
(* fanout >= num_nodes - 1 and no delivery failure, a message originated   *)
(* by update at any node is eventually applied by the replica of every     *)
(* node.  A message moves only when a worker takes it off a mailbox, so    *)
(* in a quiescent network nothing is applied any more: there, every        *)
(* originated message must have been applied by every replica.             *)
(***************************************************************************)
C14_Claimed_PreferentialReachesAll ==
  (/\ cfg.engine = "preferential"
   /\ 1 <= cfg.num_primaries /\ cfg.num_primaries < NumNodes
   /\ cfg.fanout >= NumNodes - 1
   /\ Quiesced) =>
    \A i \in NetIds : Originated(i) => \A n \in Nodes : hist[n][i].applied >= 1

(***************************************************************************)
(* C15.  Gossip Set membership predicate.  After any sequence of add_item  *)
(* and remove_item calls (made directly or by update) in any order,        *)
(* removes that precede adds included, is_present(x) equals (number of     *)
(* add_item(x) calls > number of remove_item(x) calls); an element never   *)
(* touched is not present.                                                 *)
(***************************************************************************)
C15_MembershipPredicate ==
  \A r \in Replicas, t \in SetItems :
    /\ is_present(sets.items[r], t) = (sets.adds[r][t] > sets.removes[r][t])
    /\ (sets.adds[r][t] = 0 /\ sets.removes[r][t] = 0) =>
         /\ t \notin DOMAIN sets.items[r]
         /\ ~is_present(sets.items[r], t)

\* One replica with an item added as often as removed and absent, another
\* item added only and present; the other replica never touched.
C15_Witness ==
  \E r, q \in Replicas, t, u \in SetItems :
    /\ r # q /\ t # u
    /\ sets.adds[r][t] = 1 /\ sets.removes[r][t] = 1
    /\ ~is_present(sets.items[r], t)
    /\ sets.adds[r][u] = 2 /\ sets.removes[r][u] = 0
    /\ is_present(sets.items[r], u)
    /\ sets.items[q] = GossipSetDefault

(***************************************************************************)
(* C16.  Gossip Set update is commutative: two replicas that were given    *)
(* the same multiset of Add/Remove messages through update, each in its    *)
(* own order, hold equal (adds, removes) counters for every element and    *)
(* answer is_present alike.                                                *)
(***************************************************************************)
UpdatesOnly(r) == sets.direct[r] = 0

C16_UpdateCommutes ==
  \A r, q \in Replicas :
    (UpdatesOnly(r) /\ UpdatesOnly(q) /\ sets.fed[r] = sets.fed[q]) =>
      /\ sets.items[r] = sets.items[q]
      /\ \A t \in SetItems :
           is_present(sets.items[r], t) = is_present(sets.items[q], t)

\* Both replicas were given an Add and a Remove of one item.
C16_Witness ==
  \E r, q \in Replicas, m, k \in SetMessages :
    /\ r # q /\ m.item = k.item
    /\ m.action = "Add" /\ k.action = "Remove"
    /\ UpdatesOnly(r) /\ UpdatesOnly(q)
    /\ sets.fed[r][m] = 1 /\ sets.fed[r][k] = 1
    /\ sets.fed[r] = sets.fed[q]
    /\ sets.items[r] = sets.items[q]

(***************************************************************************)
(* C17.  Gossip Set counters are monotonic: across any sequence of         *)
(* add_item, remove_item and update calls no element's adds or removes     *)
(* counter ever decreases, and each call changes exactly one counter of    *)
(* exactly one element of one replica, by +1, leaving every other counter  *)
(* unchanged.  The counters of an element without an entry are 0.          *)
(***************************************************************************)
Counter(items, t, field) == IF t \in DOMAIN items THEN items[t][field] ELSE 0

Counters == Replicas \X SetItems \X {"added_count", "removed_count"}

C17_CountersMonotonic ==
  [][/\ \A c \in Counters :
          Counter(sets'.items[c[1]], c[2], c[3])
            >= Counter(sets.items[c[1]], c[2], c[3])
     /\ \E c \in Counters :
          /\ Counter(sets'.items[c[1]], c[2], c[3])
               = Counter(sets.items[c[1]], c[2], c[3]) + 1
          /\ \A d \in Counters \ {c} :
               Counter(sets'.items[d[1]], d[2], d[3])
                 = Counter(sets.items[d[1]], d[2], d[3])]_vars

\* A replica called directly and through update, with both counters of one
\* item raised and an entry for another item.
C17_Witness ==
  \E r \in Replicas, t, u \in SetItems, m \in SetMessages :
    /\ t # u
    /\ sets.direct[r] >= 1 /\ sets.fed[r][m] >= 1
    /\ Counter(sets.items[r], t, "added_count") >= 1
    /\ Counter(sets.items[r], t, "removed_count") >= 1
    /\ u \in DOMAIN sets.items[r]

(***************************************************************************)
(* C18.  Delivery order and stop-at-first-failure.  Both delivery          *)
(* capabilities attempt the endpoints of a batch in iteration order.  At   *)
(* the first endpoint whose mailbox is closed deliver returns an error at  *)
(* once: the endpoints before it keep the copy already enqueued, the       *)
(* endpoints from it on receive nothing from the call.  Without such an    *)
(* endpoint deliver returns Ok and every endpoint has received its copy.   *)
(***************************************************************************)
\* The mailbox an endpoint of the last deliver call leads to.
MailboxOf(endpoint) ==
  IF dl.kind = "multiplex" THEN endpoint.sender ELSE endpoint

\* The mailboxes as the last deliver call left them, and the closed ones.
DeliveredTo == IF dl.kind = "multiplex" THEN dl.group_mailbox ELSE mailbox
ClosedMailboxes == IF dl.kind = "multiplex" THEN dl.group_closed ELSE closed

\* What is enqueued for an endpoint.
CopyFor(endpoint) ==
  IF dl.kind = "multiplex"
    THEN [message |-> dl.message, node_index |-> endpoint.node_index]
    ELSE dl.message

\* The position of the first endpoint of the batch whose mailbox is closed;
\* one past the end of the batch if there is none.
FirstClosed ==
  IF \E k \in DOMAIN dl.endpoints : MailboxOf(dl.endpoints[k]) \in ClosedMailboxes
    THEN CHOOSE k \in DOMAIN dl.endpoints :
           /\ MailboxOf(dl.endpoints[k]) \in ClosedMailboxes
           /\ \A j \in 1 .. (k - 1) :
                MailboxOf(dl.endpoints[j]) \notin ClosedMailboxes
    ELSE Len(dl.endpoints) + 1

\* The copies for the first k endpoints of the batch that lead to mailbox b,
\* in the order of the batch.
RECURSIVE CopiesInto(_, _)
CopiesInto(b, k) ==
  IF k = 0 THEN <<>>
  ELSE IF MailboxOf(dl.endpoints[k]) = b
    THEN Append(CopiesInto(b, k - 1), CopyFor(dl.endpoints[k]))
    ELSE CopiesInto(b, k - 1)

C18_StopAtFirstFailure ==
  dl.kind # "none" =>
    /\ dl.result = (IF FirstClosed <= Len(dl.endpoints) THEN "Err" ELSE "Ok")
    /\ \A b \in DOMAIN DeliveredTo :
         DeliveredTo[b] = dl.pre[b] \o CopiesInto(b, FirstClosed - 1)
    /\ \A k \in FirstClosed .. Len(dl.endpoints) :
         \A b \in DOMAIN DeliveredTo :
           MailboxOf(dl.endpoints[k]) = b /\ b \notin ClosedMailboxes =>
             Len(DeliveredTo[b]) - Len(dl.pre[b])
               = Cardinality({ j \in 1 .. (FirstClosed - 1) :
                                 MailboxOf(dl.endpoints[j]) = b })

\* A multiplex batch of three endpoints that fails at the second one, the
\* third leading to an open group.
C18_Witness ==
  /\ dl.kind = "multiplex"
  /\ Len(dl.endpoints) = 3
  /\ FirstClosed = 2
  /\ dl.result = "Err"
  /\ dl.endpoints[3].sender \notin dl.group_closed
  /\ dl.group_mailbox[dl.endpoints[1].sender]
       = <<[message |-> dl.message, node_index |-> dl.endpoints[1].node_index]>>

(***************************************************************************)
(* C19.  Delivery error propagation without rollback.  A call returns an   *)
(* error exactly when its gossip handed the delivery capability an         *)
(* endpoint whose mailbox is closed.  When that happens during update(m)   *)
(* or a first-sight receive(m), the call returns the error and the         *)
(* mutation made by data.update(m) before the fan-out stays in place, as   *)
(* does the record of the identifier in the dedup structure.               *)
(***************************************************************************)
\* The last call's gossip chose an endpoint whose mailbox is closed.
DeliveryFailed ==
  /\ last.targets.some
  /\ \E k \in DOMAIN last.chosen : last.chosen[k] \in closed

C19_ErrorWithoutRollback ==
  /\ (last.result = "Err") = DeliveryFailed
  /\ (FirstSightOrUpdate /\ DeliveryFailed) =>
       /\ last.result = "Err"
       /\ ReplicaUpdatedOnce
       /\ is_present(data[last.node], last.msg.item)
            = is_present(data_update(last.pre.data, last.msg), last.msg.item)
       /\ cfg.engine = "uniform" => last.msg.id \in seen_messages[last.node]
       /\ cfg.engine = "preferential" =>
            last.msg.id \in DOMAIN message_log[last.node]

\* A first-sight receive whose delivery reached one peer and then failed
\* at a closed mailbox.
C19_Witness ==
  /\ last.op = "receive" /\ FirstSightOrUpdate
  /\ last.result = "Err"
  /\ TotalSent = 1
  /\ Len(last.chosen) = 2
  /\ ReplicaUpdatedOnce

(***************************************************************************)
(* C20.  Self-exclusion in the channel adapter (uniform).  For every node  *)
(* i the constructed peer list holds exactly one send handle for each      *)
(* other node, num_nodes - 1 handles in all, and none for i's own mailbox. *)
(* Consequently no receive or update call of a uniform network enqueues a  *)
(* message into the caller's own mailbox: its gossip draws from that peer  *)
(* list, so the caller is not among the chosen endpoints.                  *)
(***************************************************************************)
\* The number of handles for node j's mailbox in the list.
Handles(list, j) == Cardinality({ k \in DOMAIN list : list[k] = j })

C20_SelfExclusion ==
  /\ \A i \in Nodes :
       /\ Len(peers(i)) = NumNodes - 1
       /\ Handles(peers(i), i) = 0
       /\ \A j \in Nodes \ {i} : Handles(peers(i), j) = 1
  /\ (cfg.engine = "uniform" /\ last.op # "none") =>
       /\ last.targets.some => last.targets.list = peers(last.node)
       /\ Handles(last.chosen, last.node) = 0
       /\ Sent(last.node) = 0

\* A first-sight receive at a node that forwards to every other node while
\* a further message waits in its own mailbox.
C20_Witness ==
  /\ cfg.engine = "uniform" /\ last.op = "receive"
  /\ Len(last.chosen) = NumNodes - 1
  /\ \A p \in Nodes \ {last.node} : Sent(p) = 1
  /\ mailbox[last.node] # <<>>
  /\ Sent(last.node) = 0

(***************************************************************************)
(* C21.  Preferential channel construction partition.  Node i is primary   *)
(* iff i < num_primaries.  Its primaries list is exactly the handles of    *)
(* the nodes j < num_primaries with j # i, its secondaries list exactly    *)
(* the handles of the nodes j >= num_primaries with j # i, each once and   *)
(* in index order; so the two lists are disjoint and together hold every   *)
(* other node exactly once.  A preferential engine gossips to one of its   *)
(* two lists and to nothing else.                                          *)
(***************************************************************************)
\* The list holds the nodes of S, each once, in increasing order.
ListsExactly(list, S) ==
  /\ Len(list) = Cardinality(S)
  /\ Range(list) = S
  /\ \A k \in 1 .. (Len(list) - 1) : list[k] < list[k + 1]

C21_PreferentialPartition ==
  cfg.engine = "preferential" =>
    /\ \A i \in Nodes :
         /\ primary(i) = (i < cfg.num_primaries)
         /\ ListsExactly(primaries(i),
                         { j \in Nodes : j < cfg.num_primaries /\ j # i })
         /\ ListsExactly(secondaries(i),
                         { j \in Nodes : j >= cfg.num_primaries /\ j # i })
         /\ Range(primaries(i)) \cap Range(secondaries(i)) = {}
         /\ \A j \in Nodes \ {i} :
              Handles(primaries(i), j) + Handles(secondaries(i), j) = 1
         /\ Handles(primaries(i), i) + Handles(secondaries(i), i) = 0
    /\ last.targets.some =>
         last.targets.list \in {primaries(last.node), secondaries(last.node)}

\* A network with primaries and secondaries in which a node with a peer of
\* either kind has gossiped to its secondaries.
C21_Witness ==
  /\ cfg.engine = "preferential"
  /\ 1 <= cfg.num_primaries /\ cfg.num_primaries < NumNodes
  /\ last.targets.some
  /\ primaries(last.node) # <<>> /\ secondaries(last.node) # <<>>
  /\ last.targets.list = secondaries(last.node)
  /\ last.chosen # <<>>

(***************************************************************************)
(* C22.  Multiplex addressing is a bijection.  For every num_groups > 0    *)
(* and every global index g, for_node(num_groups, g) has group_index <     *)
(* num_groups and node_index * num_groups + group_index = g, so distinct   *)
(* global indices get distinct (group, node) pairs.  This holds of the     *)
(* addresses the constructor has computed for its nodes and of for_node    *)
(* on every index up to NumNodes * num_groups.                             *)
(***************************************************************************)
\* The global index a (group, node) pair stands for.
GlobalIndex(num_groups, group_index, node_index) ==
  node_index * num_groups + group_index

C22_AddressingBijection ==
  /\ \A i \in 0 .. (mux.i - 1) :
       /\ mux.group_info[i].group_index \in 0 .. (mux.num_groups - 1)
       /\ mux.group_info[i].node_index >= 0
       /\ GlobalIndex(mux.num_groups, mux.group_info[i].group_index,
                      mux.group_info[i].node_index) = i
       /\ \A j \in 0 .. (mux.i - 1) :
            i # j => mux.group_info[i] # mux.group_info[j]
  /\ \A g \in 0 .. (NumNodes * mux.num_groups) :
       LET info == for_node(mux.num_groups, g) IN
         /\ info.group_index \in 0 .. (mux.num_groups - 1)
         /\ info.node_index >= 0
         /\ GlobalIndex(mux.num_groups, info.group_index, info.node_index) = g
         /\ \A h \in 0 .. (NumNodes * mux.num_groups) :
              g # h => for_node(mux.num_groups, h) # info

\* The constructor has addressed all its nodes, with more than one group and
\* with a group that holds more than one node.
C22_Witness ==
  /\ mux.status = "built"
  /\ mux.num_groups > 1
  /\ \E i, j \in Nodes :
       /\ i # j
       /\ mux.group_info[i].group_index = mux.group_info[j].group_index
       /\ mux.group_info[i].node_index # mux.group_info[j].node_index
  /\ \E i \in Nodes : mux.group_info[i].group_index # 0

(***************************************************************************)
(* C23.  Multiplex peer selection.  When peers_per_node <= num_nodes - 1,  *)
(* the peer list the constructor builds for node i (primaries and          *)
(* secondaries taken together in the preferential one) holds exactly       *)
(* peers_per_node endpoints, which stand for pairwise distinct global      *)
(* indices in [0, num_nodes), none of them i; in the preferential one the  *)
(* primaries are the peers with a global index < num_primaries.            *)
(***************************************************************************)
\* The global index an endpoint leads to.
EndpointGlobal(e) == GlobalIndex(mux.num_groups, e.sender, e.node_index)

\* All the peers the constructor gave node i.
MuxPeers(i) ==
  IF cfg.engine = "uniform" THEN mux.peers[i]
  ELSE mux.primaries[i] \o mux.secondaries[i]

C23_MultiplexPeerSelection ==
  mux.peers_per_node <= NumNodes - 1 =>
    \A i \in 0 .. (mux.i - 1) :
      /\ Len(MuxPeers(i)) = mux.peers_per_node
      /\ \A k \in DOMAIN MuxPeers(i) :
           /\ MuxPeers(i)[k].sender \in 0 .. (mux.num_groups - 1)
           /\ EndpointGlobal(MuxPeers(i)[k]) \in Nodes
           /\ EndpointGlobal(MuxPeers(i)[k]) # i
           /\ \A l \in DOMAIN MuxPeers(i) :
                k # l => EndpointGlobal(MuxPeers(i)[k])
                           # EndpointGlobal(MuxPeers(i)[l])
      /\ cfg.engine = "preferential" =>
           /\ \A k \in DOMAIN mux.primaries[i] :
                EndpointGlobal(mux.primaries[i][k]) < cfg.num_primaries
           /\ \A k \in DOMAIN mux.secondaries[i] :
                EndpointGlobal(mux.secondaries[i][k]) >= cfg.num_primaries

\* A preferential network of several groups has been built in which a node
\* knows a primary and a secondary, in a group other than the first.
C23_Witness ==
  /\ mux.status = "built"
  /\ cfg.engine = "preferential"
  /\ mux.num_groups > 1
  /\ mux.peers_per_node >= 2
  /\ \E i \in Nodes :
       /\ mux.primaries[i] # <<>> /\ mux.secondaries[i] # <<>>
       /\ \E k \in DOMAIN MuxPeers(i) : MuxPeers(i)[k].sender > 0

(***************************************************************************)
(* C26.  Local visibility of an update.  When update(Add(x)) has returned  *)
(* at a node, with Ok or with the delivery's error, and x had no removes   *)
(* at that node before the call, the node's replica reports x present; no  *)
(* other node has to process anything for that.                            *)
(***************************************************************************)
C26_LocalVisibility ==
  ( /\ last.op = "update"
    /\ last.msg.action = "Add"
    /\ Counter(last.pre.data, last.msg.item, "removed_count") = 0 )
  => is_present(data[last.node], last.msg.item)

\* An update(Add(x)) whose delivery failed, at a node that had not seen x,
\* while no other engine has been called.
C26_Witness ==
  /\ last.op = "update"
  /\ last.msg.action = "Add"
  /\ last.result = "Err"
  /\ ~is_present(last.pre.data, last.msg.item)
  /\ Counter(last.pre.data, last.msg.item, "removed_count") = 0
  /\ is_present(data[last.node], last.msg.item)
  /\ \A n \in Nodes \ {last.node} : data[n] = GossipSetDefault

(***************************************************************************)
(* C30.  Network-wide at-most-once application.  In a uniform or           *)
(* preferential network in which every message identifier is passed to     *)
(* update once, at one node, and otherwise only travels through receive,   *)
(* every node applies each identifier to its replica at most once; so at   *)
(* every node the adds (removes) counter of an element never exceeds the   *)
(* number of originated Add (Remove) messages for it.                      *)
(***************************************************************************)
C30_AtMostOnceApplication ==
  \A n \in Nodes :
    /\ \A i \in NetIds :
         /\ hist[n][i].applied <= 1
         /\ hist[n][i].updates + hist[n][i].receives > 0 =>
              hist[n][i].applied = 1
    /\ \A t \in NetItems :
         /\ Counter(data[n], t, "added_count") <= Injected("Add", t)
         /\ Counter(data[n], t, "removed_count") <= Injected("Remove", t)
         /\ Counter(data[n], t, "added_count") =
              Cardinality({ i \in NetIds : /\ hist[n][i].applied = 1
                                           /\ Message(i).action = "Add"
                                           /\ Message(i).item = t })

\* The origin of a message has had it back from a peer, and another node has
\* received it more than once; each has applied it once.
C30_Witness ==
  \E i \in NetIds, n, o \in Nodes :
    /\ n # o
    /\ hist[o][i].updates = 1 /\ hist[o][i].receives >= 1
    /\ hist[n][i].receives >= 2
    /\ hist[o][i].applied = 1 /\ hist[n][i].applied = 1
    /\ Counter(data[o], Message(i).item, "added_count") = 1

(***************************************************************************)
(* Counting the copies of a message over a whole run of the network: no    *)
(* receiver is dropped there, so every copy sent is either still in a      *)
(* mailbox or has been taken off it and handed to receive.                 *)
(***************************************************************************)
RECURSIVE CopiesIn(_, _)
CopiesIn(queue, i) ==
  IF queue = <<>> THEN 0
  ELSE (IF Head(queue).id = i THEN 1 ELSE 0) + CopiesIn(Tail(queue), i)

\* The sum of the values of the function f over the set S.
RECURSIVE SumOver(_, _)
SumOver(S, f) ==
  IF S = {} THEN 0
  ELSE LET x == CHOOSE y \in S : TRUE IN f[x] + SumOver(S \ {x}, f)

\* The number of copies of the message i sent so far.
Sends(i) ==
  SumOver(Nodes, [n \in Nodes |-> hist[n][i].receives])
    + SumOver(Nodes, [n \in Nodes |-> CopiesIn(mailbox[n], i)])

\* The number of gossip calls made so far for the message i.
GossipCalls(i) ==
  SumOver(Nodes, [n \in Nodes |-> hist[n][i].gossips])

\* The node that originated the message i.
Origin(i) == CHOOSE n \in Nodes : hist[n][i].updates > 0

(***************************************************************************)
(* C29.  Finite epidemic (uniform).  In a uniform network where a message  *)
(* identifier is originated by one update call, every node forwards it in  *)
(* at most one gossip call over the whole run: the origin in update, every *)
(* other node on its first receive.  So at most num_nodes * fanout copies  *)
(* of it are ever sent, and with the mailboxes processed fairly the        *)
(* network comes to rest with all mailboxes empty.                         *)
(***************************************************************************)
C29_FiniteEpidemicUniform ==
  /\ [](cfg.engine = "uniform" =>
          \A i \in NetIds :
            /\ \A n \in Nodes :
                 /\ hist[n][i].gossips <= 1
                 /\ hist[n][i].gossips = 1 <=>
                      hist[n][i].updates + hist[n][i].receives > 0
                 /\ hist[n][i].updates = 1 => hist[n][i].first = "update"
            /\ GossipCalls(i) <= NumNodes
            /\ Sends(i) <= NumNodes * cfg.fanout)
  /\ <>[](cfg.engine = "uniform" => Quiesced)

\* A message has gone round a uniform network with a fanout below
\* num_nodes - 1: nodes have had it more than once, every node that had it
\* has forwarded it once, and the mailboxes are empty again.
C29_Witness ==
  /\ cfg.engine = "uniform"
  /\ 1 <= cfg.fanout /\ cfg.fanout < NumNodes - 1
  /\ Quiesced
  /\ \E i \in NetIds :
       /\ Originated(i)
       /\ \E n \in Nodes : hist[n][i].receives >= 2
       /\ GossipCalls(i) >= 2
       /\ Sends(i) >= 2

(***************************************************************************)
(* C25.  Scenario S3: two primaries P1 and P2, one secondary S1, fanout 1. *)
(* After P1 performs update(m), under every interleaving P1's replica is   *)
(* updated at once, P2 and S1 eventually apply m, each exactly once, and   *)
(* no more than three copies of m are sent in the whole run.  What has     *)
(* been originated and applied stays so, hence "eventually applied" is     *)
(* stated as: from some point on, every message a primary originated has   *)
(* been applied everywhere.                                                *)
(***************************************************************************)
\* The network of the scenario.
S3 ==
  /\ cfg.engine = "preferential"
  /\ cfg.num_primaries = 2
  /\ NumNodes - cfg.num_primaries = 1
  /\ cfg.fanout = 1

\* The message i has been originated by a primary.
OriginatedByPrimary(i) == Originated(i) /\ primary(Origin(i))

C25_ScenarioS3 ==
  /\ [](S3 =>
          \A i \in NetIds :
            OriginatedByPrimary(i) =>
              /\ hist[Origin(i)][i].applied = 1
              /\ hist[Origin(i)][i].first = "update"
              /\ \A n \in Nodes : hist[n][i].applied <= 1
              /\ Sends(i) <= 3)
  /\ <>[](S3 =>
            \A i \in NetIds : OriginatedByPrimary(i) => AppliedEverywhere(i))

\* The scenario has run to its end: the message went from P1 to P2, back to
\* P1 and on to S1, three copies in all, and everyone has applied it once.
C25_Witness ==
  /\ S3
  /\ Quiesced
  /\ \E i \in NetIds :
       /\ OriginatedByPrimary(i)
       /\ AppliedEverywhere(i)
       /\ Sends(i) = 3
       /\ hist[Origin(i)][i].receives = 1

(***************************************************************************)
(* C27.  One-tick spread in the cooperative network.  In a uniform cult of *)
(* num_nodes watchers with fanout k <= num_nodes - 1 and all queues empty, *)
(* after one watcher calls update(Add(x)) through add_color and one tick   *)
(* has run, at least k + 1 replicas report x present, and the colours kept *)
(* for the watchers say the same.                                          *)
(***************************************************************************)
\* The replicas that report the item t present.
PresentAt(t) == { n \in Nodes : is_present(data[n], t) }

\* The cult has been called twice since construction: add_color, then a tick
\* that has returned.
AddThenOneTick ==
  /\ cult.ops = <<"add_color", "tick">>
  /\ ~cult.in_tick

C27_OneTickSpread ==
  ( /\ AddThenOneTick
    /\ cfg.fanout <= NumNodes - 1 )
  => /\ Cardinality(PresentAt(last.msg.item)) >= cfg.fanout + 1
     /\ \A n \in Nodes :
          cult.watcher_colors[n] = color_for_set(data[n])

\* With fanout 1 the tick has left exactly two replicas with the colour, and
\* has taken two messages off the queues.
C27_Witness ==
  /\ AddThenOneTick
  /\ cfg.fanout = 1
  /\ last.msg.item = Red
  /\ Cardinality(PresentAt(Red)) = cfg.fanout + 1
  /\ \A n \in PresentAt(Red) : cult.watcher_colors[n] = RedBits
  /\ SumOver(Nodes, [n \in Nodes |-> hist[n][last.msg.id].receives]) = 2

(***************************************************************************)
(* C28.  tick idle report.  As claimed, and as tick's documentation says:  *)
(* tick returns false whenever the network is idle after the tick, that    *)
(* is, whenever every watcher's message queue is empty at the moment tick  *)
(* returns, the tick that processed the last remaining messages included.  *)
(***************************************************************************)
\* tick has just returned.
TickReturned ==
  /\ cult.ops # <<>>
  /\ cult.ops[Len(cult.ops)] = "tick"
  /\ ~cult.in_tick

C28_Claimed_TickIdleReport ==
  TickReturned /\ Quiesced => cult.returned = FALSE

(***************************************************************************)
(* C24.  Terminate and Query are never gossiped.  In the worker loops of   *)
(* both drivers only set-modifying messages are passed to an engine's      *)
(* receive or update, so no engine ever puts a Terminate or a Query into a *)
(* mailbox: those in the mailboxes or taken off them are the ones the main *)
(* thread sent.  A Query is answered with is_present of the node's replica *)
(* as it is, and leaves every engine's replica and dedup state unchanged.  *)
(***************************************************************************)
\* Every mailbox entry of the running driver, as the message it holds.
RECURSIVE CountIn(_, _)
CountIn(queue, action) ==
  IF queue = <<>> THEN 0
  ELSE LET e == Head(queue)
           held == IF drv.kind = "node" THEN e ELSE e.message
       IN (IF held.action = action THEN 1 ELSE 0)
            + CountIn(Tail(queue), action)

\* The number of messages with the action waiting in the mailboxes.
Waiting(action) ==
  IF drv.kind = "node"
    THEN SumOver(Nodes, [n \in Nodes |-> CountIn(mailbox[n], action)])
    ELSE SumOver(Workers("group"),
                 [g \in Workers("group") |->
                    CountIn(dl.group_mailbox[g], action)])

\* The node the head of worker w's mailbox is for, and the message there.
HeadNode(w) ==
  IF drv.kind = "node" THEN w
  ELSE mux.groups[w + 1].gossips[Head(dl.group_mailbox[w]).node_index + 1]

HeadMessage(w) ==
  IF drv.kind = "node" THEN Head(mailbox[w])
  ELSE Head(dl.group_mailbox[w]).message

\* Worker w has taken the message off the head of its mailbox, and no
\* mailbox has changed otherwise.
OnlyPopped(w) ==
  IF drv.kind = "node"
    THEN /\ mailbox[w] # <<>>
         /\ mailbox' = [mailbox EXCEPT ![w] = Tail(@)]
         /\ dl' = dl
    ELSE /\ dl.group_mailbox[w] # <<>>
         /\ dl' = [dl EXCEPT !.group_mailbox[w] = Tail(@)]
         /\ mailbox' = mailbox

\* A step in which a worker takes a Query off its mailbox.
QueryTaken == drv'.taken.query # drv.taken.query

C24_CommandsNeverGossiped ==
  /\ [](last.op # "none" => last.msg.action \in {"Add", "Remove"})
  /\ [](/\ Waiting("Terminate") + drv.taken.terminate = drv.sent.terminate
        /\ Waiting("Query") + drv.taken.query = drv.sent.query)
  /\ [][QueryTaken =>
          /\ seen_messages' = seen_messages
          /\ message_log' = message_log
          /\ data' = data
          /\ <<calls, hist, last>>' = <<calls, hist, last>>
          /\ \E w \in Workers(drv.kind) :
               /\ OnlyPopped(w)
               /\ HeadMessage(w).action = "Query"
               /\ drv'.answers =
                    Append(drv.answers,
                           is_present(data[HeadNode(w)], HeadMessage(w).item))
               /\ drv'.thread = drv.thread]_vars

\* In the multiplex driver a node that had the element through gossip has
\* answered the main thread's Query with yes.
C24_Witness ==
  /\ drv.kind = "group"
  /\ drv.taken.query = 1
  /\ drv.answers = <<TRUE>>
  /\ hist[drv.target][1].updates = 0
  /\ hist[drv.target][1].receives >= 1
  /\ \E n \in Nodes : hist[n][1].updates = 1

(***************************************************************************)
(* C31.  Finite epidemic (preferential).  In a preferential network where  *)
(* a message identifier is originated by one update call, a primary makes  *)
(* at most two gossip calls for it over the whole run and a secondary at   *)
(* most one, the originator's update counted.  So the copies sent are      *)
(* bounded, and with the mailboxes processed fairly the network comes to   *)
(* rest with all mailboxes empty.                                          *)
(***************************************************************************)
\* The most gossip calls node n makes for one identifier.
GossipCallBound(n) == IF primary(n) THEN 2 ELSE 1

C31_FiniteEpidemicPreferential ==
  /\ [](cfg.engine = "preferential" =>
          \A i \in NetIds :
            /\ \A n \in Nodes : hist[n][i].gossips <= GossipCallBound(n)
            /\ GossipCalls(i) <=
                 SumOver(Nodes, [n \in Nodes |-> GossipCallBound(n)])
            /\ Sends(i) <=
                 SumOver(Nodes, [n \in Nodes |-> GossipCallBound(n)])
                   * cfg.fanout)
  /\ <>[](cfg.engine = "preferential" => Quiesced)

\* A message has gone round a preferential network and the mailboxes are
\* empty again: a primary has passed it on twice, a secondary once, and a
\* primary has dropped a third sighting.
C31_Witness ==
  /\ cfg.engine = "preferential"
  /\ Quiesced
  /\ \E i \in NetIds :
       /\ Originated(i)
       /\ \E n \in Nodes : primary(n) /\ hist[n][i].gossips = 2
       /\ \E n \in Nodes : ~primary(n) /\ hist[n][i].gossips = 1
       /\ \E n \in Nodes :
            /\ hist[n][i].updates + hist[n][i].receives >= 3
            /\ message_log[n][i] = "MoreThanTwice"

(***************************************************************************)
(* C32.  Saturating seen count.  increment_seen returns Once for an        *)
(* identifier absent from message_log, Twice on the next call for it and   *)
(* MoreThanTwice on every call after that; the count stored for an         *)
(* identifier never decreases and an entry is never removed.               *)
(***************************************************************************)
\* The count after k sightings.
CountAfter(k) ==
  IF k = 1 THEN "Once" ELSE IF k = 2 THEN "Twice" ELSE "MoreThanTwice"

\* The order of the counts.
CountRank(count) ==
  CASE count = "Once" -> 1
    [] count = "Twice" -> 2
    [] count = "MoreThanTwice" -> 3

C32_SaturatingSeenCount ==
  /\ [](sight.id # 0 =>
          /\ sight.id \notin DOMAIN sight.before => sight.count = "Once"
          /\ sight.count = CountAfter(sight.calls[sight.id])
          /\ sight.message_log[sight.id] = sight.count)
  /\ [](\A i \in SightIds :
          /\ i \in DOMAIN sight.message_log <=> sight.calls[i] > 0
          /\ sight.calls[i] > 0 =>
               sight.message_log[i] = CountAfter(sight.calls[i]))
  /\ [][\A i \in DOMAIN sight.message_log :
          /\ i \in DOMAIN sight'.message_log
          /\ CountRank(sight'.message_log[i])
               >= CountRank(sight.message_log[i])]_vars

\* An identifier is sighted for the fourth time, its count already at
\* MoreThanTwice, while another identifier is at Once and a third one has
\* never been sighted.
C32_Witness ==
  /\ sight.id # 0
  /\ sight.calls[sight.id] = 4
  /\ sight.before[sight.id] = "MoreThanTwice"
  /\ sight.count = "MoreThanTwice"
  /\ \E i \in SightIds : sight.calls[i] = 1 /\ sight.message_log[i] = "Once"
  /\ \E i \in SightIds : i \notin DOMAIN sight.message_log

(***************************************************************************)
(* C33.  Primaries before secondaries.  In a preferential network, a       *)
(* message originated by update at a primary is in no secondary's mailbox, *)
(* and has been taken off none, before some primary has reached the seen   *)
(* count Twice for it; and a call that sends it to a secondary is either a *)
(* primary's receive at its second sighting or the receive in which a      *)
(* secondary applied it.                                                   *)
(***************************************************************************)
\* The message i has been sent to the node n.
SentToNode(n, i) == CopiesIn(mailbox[n], i) > 0 \/ hist[n][i].receives > 0

\* The node n has seen the message i at least twice.
SeenTwice(n, i) ==
  /\ i \in DOMAIN message_log[n]
  /\ message_log[n][i] \in {"Twice", "MoreThanTwice"}

\* The last call sent its message to a secondary.
LastSentToSecondary == \E k \in DOMAIN last.chosen : ~primary(last.chosen[k])

Recorded(n, i) ==
  IF cfg.engine = "uniform" THEN i \in seen_messages[n]
                            ELSE i \in DOMAIN message_log[n]

\* The copies of the message i in the mailboxes.
CopiesQueued(i) == SumOver(Nodes, [p \in Nodes |-> CopiesIn(mailbox[p], i)])

\* A gossip call of the uniform engine n for the message i has failed: fewer
\* copies went out than its gossip calls chose endpoints.
DeliveryFell(n, i) ==
  /\ cfg.engine = "uniform"
  /\ i \in seen_messages[n]
  /\ CopiesQueued(i) < hist[n][i].gossips * Min(cfg.fanout, Len(peers(n)))

\* The step is a receive call of node n for the message i.
ReceiveStep(n, i) ==
  /\ calls' = calls + 1
  /\ last'.op = "receive" /\ last'.node = n /\ last'.msg.id = i

C34_EnginesNeverRetry ==
  /\ [](last.result = "Err" /\ FirstSightOrUpdate =>
          Recorded(last.node, last.msg.id))
  /\ [][\A i \in Ids :
          DeliveryFell(Driven, i) /\ ReceiveStep(Driven, i) =>
            /\ last'.result = "Ok"
            /\ ~last'.targets.some
            /\ last'.chosen = <<>>
            /\ mailbox' = mailbox
            /\ data' = data
            /\ seen_messages' = seen_messages
            /\ hist'[Driven][i].gossips = hist[Driven][i].gossips
            /\ hist'[Driven][i].applied = hist[Driven][i].applied]_vars

\* A first-sight receive failed at a closed mailbox before it reached an
\* open peer, and two more receive calls of the message have left that
\* peer's mailbox empty.
C34_Witness ==
  /\ cfg.engine = "uniform"
  /\ hist[Driven][last.msg.id].first = "receive"
  /\ hist[Driven][last.msg.id].receives = 3
  /\ hist[Driven][last.msg.id].updates = 0
  /\ DeliveryFell(Driven, last.msg.id)
  /\ last.result = "Ok"
  /\ \E p \in Nodes \ (closed \cup {Driven}) : mailbox[p] = <<>>

(***************************************************************************)
(* C35.  Multiplex routing reaches the intended engine.  For both          *)
(* multiplex constructors, the endpoint built for the global index j sends *)
(* into the channel whose receiver is returned in the group record         *)
(* j mod num_groups, and the lookup gossips[node_index] in that record,    *)
(* with the endpoint's node_index, selects the engine constructed for j,   *)
(* which sits at position j div num_groups.  Every endpoint in a peer list *)
(* is such an endpoint.                                                    *)
(***************************************************************************)
\* The group records that hold the receiver of the channel c.
RecordsOf(c) == { k \in DOMAIN mux.groups : mux.groups[k].channel = c }

\* The endpoint e leads to the engine constructed for the global index j.
RoutesTo(e, j) ==
  /\ RecordsOf(e.sender) = {(j % mux.num_groups) + 1}
  /\ LET gossips == mux.groups[(j % mux.num_groups) + 1].gossips IN
       /\ e.node_index = j \div mux.num_groups
       /\ e.node_index < Len(gossips)
       /\ gossips[e.node_index + 1] = j

C35_MultiplexRouting ==
  mux.status = "built" =>
    /\ \A j \in Nodes : RoutesTo(EndpointOf(mux.num_groups, j), j)
    /\ \A i \in Nodes : \A k \in DOMAIN MuxPeers(i) :
         \E j \in Nodes \ {i} :
           /\ MuxPeers(i)[k] = EndpointOf(mux.num_groups, j)
           /\ RoutesTo(MuxPeers(i)[k], j)

\* A preferential network has been built with two or more groups, fewer
\* than there are nodes, and a node holds an endpoint for the second engine
\* of a group.
C35_Witness ==
  /\ mux.status = "built"
  /\ cfg.engine = "preferential"
  /\ 1 < mux.num_groups /\ mux.num_groups < NumNodes
  /\ \E i \in Nodes : \E k \in DOMAIN MuxPeers(i) :
       /\ MuxPeers(i)[k].node_index = 1
       /\ Len(mux.groups[MuxPeers(i)[k].sender + 1].gossips) = 2

(***************************************************************************)
(* C36.  Multiplex construction shape.  As claimed: for every num_nodes    *)
(* and num_groups, both multiplex constructors return exactly num_groups   *)
(* group records, one mailbox per group, whose engine arrays together hold *)
(* exactly num_nodes engines, group g holding the nodes with global index  *)
(* congruent to g modulo num_groups.                                       *)
(***************************************************************************)
\* The nodes of the group g, in the order of their global index.
NodesOfGroup(g) ==
  SelectSeq(channels, LAMBDA j : j % mux.num_groups = g)

\* The number of engines in the group records returned.
EnginesReturned ==
  SumOver(DOMAIN mux.groups,
          [k \in DOMAIN mux.groups |-> Len(mux.groups[k].gossips)])

C36_Claimed_ConstructionShape ==
  mux.status = "built" =>
    /\ Len(mux.groups) = mux.num_groups
    /\ \A k, l \in DOMAIN mux.groups :
         k # l => mux.groups[k].channel # mux.groups[l].channel
    /\ EnginesReturned = NumNodes
    /\ \A k \in DOMAIN mux.groups :
         mux.groups[k].gossips = NodesOfGroup(k - 1)

(***************************************************************************)
(* C37.  Worker exit on the sentinel.  As claimed: a worker that pulls a   *)
(* Terminate message leaves its loop and returns Ok without dispatching to *)
(* any engine and without processing the rumors queued behind it, for      *)
(* every node worker and every group worker returned by construction,      *)
(* whatever num_nodes and num_groups are, the driver addressing Terminate  *)
(* to the intra-group index 0.                                             *)
(***************************************************************************)
\* A step in which a worker takes a Terminate off its mailbox.
TerminateTaken == drv'.taken.terminate # drv.taken.terminate

\* The mailbox of worker w.
MailboxOfWorker(w) ==
  IF drv.kind = "node" THEN mailbox[w] ELSE dl.group_mailbox[w]

\* Nothing is taken off the mailbox of worker w in the step.
NothingTaken(w) ==
  /\ Len(MailboxOfWorker(w)') >= Len(MailboxOfWorker(w))
  /\ SubSeq(MailboxOfWorker(w)', 1, Len(MailboxOfWorker(w)))
       = MailboxOfWorker(w)

C37_Claimed_WorkerExitOnSentinel ==
  /\ [][TerminateTaken =>
          \E w \in Workers(drv.kind) :
            /\ OnlyPopped(w)
            /\ HeadMessage(w).action = "Terminate"
            /\ drv.thread[w] = "running"
            /\ drv'.thread[w] = "leaving"
            /\ drv'.result[w] = "Ok"
            /\ drv'.answers = drv.answers
            /\ <<seen_messages, message_log, data>>'
                 = <<seen_messages, message_log, data>>
            /\ <<calls, hist, last>>' = <<calls, hist, last>>]_vars
  /\ [][\A w \in Workers(drv.kind) :
          drv.thread[w] # "running" =>
            /\ NothingTaken(w)
            /\ drv'.thread[w] # "running"
            /\ drv'.result[w] = drv.result[w]]_vars

(***************************************************************************)
(* C38.  Shutdown liveness.  As claimed: once the driver has sent          *)
(* Terminate to every mailbox, under every interleaving with the gossip in *)
(* flight, workers that return early with a delivery error and Terminate   *)
(* sends that fail included, every worker thread eventually returns and    *)
(* the driver's join over all threads completes.                           *)
(***************************************************************************)
\* The main thread has been through `for sender in senders`.
TerminateSentToAll == drv.main \in {"joining", "done", "panicked"}

\* Every worker's thread function has returned a Result.
AllReturned ==
  \A w \in Workers(drv.kind) :
    drv.thread[w] = "returned" /\ drv.result[w] \in {"Ok", "Err"}

C38_Claimed_ShutdownLiveness ==
  /\ [](TerminateSentToAll =>
          /\ drv.main # "panicked"
          /\ \A w \in Workers(drv.kind) : drv.result[w] # "panic")
  /\ TerminateSentToAll ~> (drv.main = "done" /\ AllReturned)

(***************************************************************************)
(* C39.  No delivery to a closed mailbox in the thread-per-node harness.   *)
(* As claimed: in the local_network test every update and every receive    *)
(* call on every node returns Ok, so that no unwrap panics a thread: no    *)
(* node forwards a rumor to a peer whose thread has returned and dropped   *)
(* its mailbox.                                                            *)
(*                                                                         *)
(* The code does not keep this: a thread returns on the first timeout that *)
(* finds num_finished at num_nodes, which says that every node has         *)
(* originated its operations, not that every rumor has been received.  A   *)
(* peer that still has a rumor in its mailbox sees it for the first time   *)
(* after that, chooses the returned node among its fanout targets, and     *)
(* gets Err from the delivery; the unwrap then panics its thread.          *)
(***************************************************************************)
Panicking(n) == harness.thread[n] \in {"unwinding", "panicked"}

C39_Claimed_NoDeliveryToClosedMailbox ==
  harness.status = "running" =>
    /\ last.result = "Ok"
    /\ \A n \in Nodes : ~Panicking(n)

(***************************************************************************)
(* C40.  UDP delivery serializes before sending.  UdpDelivery::deliver     *)
(* converts the message to bytes once, whatever the batch, and every       *)
(* datagram it sends carries these bytes.  If the conversion fails it      *)
(* returns Error::Serialization and calls send_to for no endpoint.  If a   *)
(* send fails it returns Error::Send: the endpoints before the failing one *)
(* have been sent the bytes, those after it are not attempted.  Otherwise  *)
(* every endpoint of the batch is sent the bytes, in order, and the result *)
(* is Ok.                                                                  *)
(***************************************************************************)
\* The position in the batch of the first address the socket cannot send
\* to, or 0.
FirstUnreachable ==
  LET bad == { k \in DOMAIN dl.endpoints :
                 dl.endpoints[k] \in dl.udp.unreachable }
  IN IF bad = {} THEN 0
     ELSE CHOOSE k \in bad : \A j \in bad : k <= j

\* The datagrams put on the socket are the bytes of the message, one for
\* each of the first k endpoints of the batch, in order.
SentToFirst(k) ==
  /\ Len(dl.udp.socket) = k
  /\ \A j \in 1 .. k :
       /\ dl.udp.socket[j].to = dl.endpoints[j]
       /\ dl.udp.socket[j].bytes = <<dl.message>>

C40_UdpSerializesBeforeSending ==
  dl.kind = "udp" =>
    /\ dl.udp.conversions = 1
    /\ IF dl.message \in dl.udp.rejected
         THEN /\ dl.result = "Serialization"
              /\ dl.udp.attempts = 0
              /\ dl.udp.socket = <<>>
         ELSE IF FirstUnreachable # 0
           THEN /\ dl.result = "Send"
                /\ dl.udp.attempts = FirstUnreachable
                /\ SentToFirst(FirstUnreachable - 1)
           ELSE /\ dl.result = "Ok"
                /\ dl.udp.attempts = Len(dl.endpoints)
                /\ SentToFirst(Len(dl.endpoints))

\* A deliver whose second send failed, with an endpoint after it.
C40_Witness ==
  /\ dl.kind = "udp"
  /\ dl.result = "Send"
  /\ Len(dl.udp.socket) = 1
  /\ Len(dl.endpoints) > dl.udp.attempts


====
